---- MODULE Spec2Model ----
(***************************************************************************)
(* Push-based reactivity engine of toolish (src/reactivity): leaf values,  *)
(* derivatives, consumers and the publisher/subscriber protocol.           *)
(*                                                                         *)
(* Every public operation is synchronous, so one action is one whole call: *)
(* the call tree it runs (notification passes, re-evaluations, callbacks,  *)
(* cascading frees) is computed by the recursive operators below, which    *)
(* thread a record `s` holding the heap of reactive objects.               *)
(***************************************************************************)
EXTENDS Integers, Sequences, FiniteSets, TLC

(* ------------------------------ bounds -------------------------------- *)

\* numbers held by leaves are 0..MaxVal (and NaN)
MaxVal == 1
\* how many operations a behaviour performs at most
MaxOps == 5
\* the largest number in an array of numbers
MaxNumber == 2
\* the longest array literal given to Reactive.of
MaxSize == 3
\* the largest number of methods called on an array of numbers
MaxArrayOps == 2
\* the longest raw array
MaxLen == 2
\* the nodes Reactive.of and Reactive.nest may create
MaxNodes == 4
\* the arrays and objects of the heap
MaxCells == 8
\* the patch() calls on the containers
MaxPatches == 2
\* the elements the arrays under splice() are made of
MaxElems == 6
\* the magnitude of the indices given to splice()
MaxIndex == 6
\* the removeCount given to splice()
MaxCount == 2
\* the splice() and removeAt() calls on an array
MaxSplices == 2
\* an index far beyond every array: test('array') passes 100
Far == 100
\* the magnitude of the indices given to select()
MaxKey == 3
\* the calls on the nodes under select() and combine()
MaxSelOps == 5
\* the calls on the nodes under select() when the last one is D.free()
MaxFreeOps == 6
\* the run() calls on a Debounce
MaxRuns == 4
\* the parameters given to run()
MaxParam == 2
\* the limit given to withLimit()
MaxLimit == 3
\* the calls of the action of an Interval
MaxTicks == 5
\* Number.POSITIVE_INFINITY, beyond every limit and every number of calls
Infinity == 1000

(* ------------------------------ values -------------------------------- *)

\* JavaScript's NaN, the one primitive that is not strictly equal to itself
NaN == 0 - 1
\* JavaScript's undefined (a derivative's cleared memo)
Undefined == 0 - 2
\* JavaScript's null
Null == 0 - 3
\* no object (a consumer slot whose consume() call has not happened)
None == "none"

Val == (0 .. MaxVal) \cup {NaN}

\* the === operator on primitives
StrictEq(x, y) == x = y /\ x # NaN

\* JavaScript truthiness of a number
Truthy(x) == x # 0 /\ x # NaN /\ x # Undefined

\* number addition, kept in 0..MaxVal
Plus(x, y) == IF x = NaN \/ y = NaN \/ x = Undefined \/ y = Undefined
              THEN NaN ELSE (x + y) % (MaxVal + 1)

(* ---------------------------- sequences ------------------------------- *)

Has(seq, x) == \E i \in 1 .. Len(seq) : seq[i] = x

\* Set.add
Add(seq, x) == IF Has(seq, x) THEN seq ELSE Append(seq, x)

\* Set.delete
Delete(seq, x) == SelectSeq(seq, LAMBDA y : y # x)

Range(seq) == {seq[i] : i \in 1 .. Len(seq)}

(* --------------------------- object graph ----------------------------- *)

Leaves == {"a", "b", "c"}
Derivs == {"d1", "d2"}
Publishers == Leaves \cup Derivs
\* the consume() calls of a behaviour, numbered in call order
ConsumerNames == <<"k1", "k2">>
Consumers == Range(ConsumerNames)

\* The derivation functions under test: d1 reads c and then a or b,
\* d2 adds c and d1 (two paths from c to d2, a chain from a or b to d2).
Derivation(d) ==
  IF d = "d1" THEN [kind |-> "cond", reads |-> <<"c", "a", "b">>]
  ELSE [kind |-> "sum", reads |-> <<"c", "d1">>]

\* the values the owner of a leaf sets it to
LeafVals(l) == IF l = "c" THEN Val ELSE 0 .. MaxVal

\* the nodes consume() is called on
Observed == {"c", "d2"}

\* What a consumer callback does besides receiving the value.
NoScript == [kind |-> "none", target |-> None, node |-> None]
\* the consumers created after k (consume() calls are numbered in call order)
Later(k) ==
  {ConsumerNames[j] : j \in {j \in 1 .. Len(ConsumerNames) :
                               \E i \in 1 .. j - 1 : ConsumerNames[i] = k}}

\* the callbacks given to consume(n, k): one that only receives the value, one that
\* calls a cancel function, one that registers a further consumer on the same node
Scripts(n, k) ==
  {NoScript}
  \cup {[kind |-> "cancel", target |-> t, node |-> None] : t \in Consumers}
  \cup {[kind |-> "consume", target |-> t, node |-> n] : t \in Later(k)}

\* the raw arrays of the program under test: const r1 = [], r2 = []
Raws == {1, 2}
\* the keys of the objects of the program under test, in insertion order
Keys == <<"a", "b">>

VARIABLES
  value,          \* ReactiveValue.value of each leaf
  subscribers,    \* Reactive.subscribers of each publisher, in insertion order
  valid,          \* ReactiveDerivative.valid
  memo,           \* ReactiveDerivative.value
  subscriptions,  \* ReactiveDerivative.subscriptions, in insertion order
  base,           \* ReactiveConsumer.base, None before the consume() call
  script,         \* the callback given to consume()
  handle,         \* consume() has returned its cancel function
  cancelCalled,   \* the cancel function has been called (history)
  evalsSince,     \* derivation calls since the derivative's last update()/free() (history)
  dropped,        \* publishers a re-evaluation has unsubscribed the derivative from (history)
  op,             \* the operation the last step performed (history)
  calls,          \* callback invocations of the last operation (history)
  passes,         \* updateSubscribers() calls of the last operation (history)
  updates,        \* update() calls of the last operation (history)
  evals,          \* derivation function calls of the last operation (history)
  frees,          \* free() calls of the last operation (history)
  steps,          \* operations performed so far
  arrays,         \* the arrays of the heap, the raw arrays first
  nodes,          \* the nodes Reactive.of created, in creation order
  DIRECT_CACHE,   \* Reactive.DIRECT_CACHE: the WeakMap from raw arrays to nodes
  NESTED_CACHE,   \* Reactive.NESTED_CACHE
  stable,         \* the node of()/nest() returned for a raw array, no mutation since (history)
  cop,            \* the cache operation the last step performed (history)
  evictions,      \* entries WeakReactiveCache.get deleted in the last operation (history)
  notified,       \* nodes that called updateSubscribers() in the last operation (history)
  pop,            \* the container operation the last step performed (history)
  patches,        \* patch() calls performed so far
  list,           \* the elements of the array under splice()
  sop,            \* the array operation the last step performed (history)
  made,           \* elements created so far, each one the number of its creation
  splices,        \* splice() and removeAt() calls performed so far
  nodeValue,      \* the value of each node under select() and combine()
  nodeSubscribers, \* the subscribers of each of these nodes, in insertion order
  derivation,     \* what the derivative D derives, once select() or combine() made it
  dValid,         \* D.valid
  dValue,         \* D.value
  dSubscriptions, \* D.subscriptions, in insertion order
  dEvals,         \* evaluations of D's derivation so far (history)
  outcome,        \* the last call on these nodes and what it returned (history)
  selOps,         \* calls on these nodes so far
  pending,        \* Debounce.pending
  deferred,       \* Debounce.deferred, as an index of promises (0: undefined)
  delay,          \* Debounce.delay, as an index of delays (0: undefined)
  parameters,     \* Debounce.parameters (0: undefined)
  promises,       \* the promise of every Deferred the Debounce made
  delays,         \* every Delay the Debounce made
  microtasks,     \* the delays whose reaction () => this.doRun() is due, in order
  events,         \* the run() calls and the calls of the action, in order (history)
  bop,            \* the name of the last step of the Debounce (history)
  intervalHandle,        \* Interval.handle: none before the constructor, then active or cleared
  intervalLimit,  \* Interval.limit
  invocations,    \* calls of the action of the Interval so far (history)
  awaiting,       \* callbacks of the Interval that await the promise of their action
  program,        \* the limit, the kind of action and the cancelling call of the program
  arrayValue,     \* ReactiveArray.value of an array of numbers made by Reactive.of
  arrayDirty,     \* ReactiveContainer.dirty of that array
  arrayOp,        \* the method the last step called on it, with its arguments, the value
                  \* before it, its result, its calls of updateSubscribers() and the
                  \* array passed to splice() as the call leaves it (history)
  arrayOps,       \* the number of methods called so far
  equality        \* the last two values given to areEqual, and what it returned for
                  \* them in either order (history)

graphVars == <<value, subscribers, valid, memo, subscriptions, base, script, handle,
               cancelCalled, evalsSince, dropped, op, calls, passes, updates, evals, frees>>

cacheVars == <<arrays, nodes, DIRECT_CACHE, NESTED_CACHE, stable, cop, evictions, notified>>

patchVars == <<pop, patches>>

spliceVars == <<list, sop, made, splices>>

selectVars == <<nodeValue, nodeSubscribers, derivation, dValid, dValue, dSubscriptions, dEvals, outcome, selOps>>

debounceVars == <<pending, deferred, delay, parameters, promises, delays, microtasks, events, bop>>

intervalVars == <<intervalHandle, intervalLimit, invocations, awaiting, program>>

arrayVars == <<arrayValue, arrayDirty, arrayOp, arrayOps>>

equalVars == <<equality>>

toolVars == <<spliceVars, selectVars, debounceVars, intervalVars, arrayVars, equalVars>>

vars == <<graphVars, cacheVars, patchVars, toolVars, steps>>

(* ------------------- src/reactivity: the call tree -------------------- *)

RECURSIVE Unsubscribe(_, _, _)
RECURSIVE UnsubscribeFrom(_, _, _)
RECURSIVE Free(_, _)
RECURSIVE Unwrap(_, _)
RECURSIVE Get(_, _, _)
RECURSIVE Sum(_, _, _, _, _)
RECURSIVE Derive(_, _)
RECURSIVE Prune(_, _, _)
RECURSIVE UpdateSubscribers(_, _)
RECURSIVE UpdateEach(_, _, _)
RECURSIVE Update(_, _)
RECURSIVE ConsumerUpdate(_, _)
RECURSIVE DerivativeUpdate(_, _)
RECURSIVE RunScript(_, _)
RECURSIVE NewConsumer(_, _, _, _)
RECURSIVE ConsumerFree(_, _)
RECURSIVE UpdateLive(_, _, _, _)

\* Reactive.subscribe
Subscribe(s, p, sub) == [s EXCEPT !.subscribers[p] = Add(@, sub)]

\* Reactive.unsubscribe
BaseUnsubscribe(s, p, sub) == [s EXCEPT !.subscribers[p] = Delete(@, sub)]

\* Reactive.hasSubscribers
HasSubscribers(s, p) == Len(s.subscribers[p]) > 0

\* ReactiveDerivative.unsubscribe: a derivative left without subscribers frees itself
DerivativeUnsubscribe(s, d, sub) ==
  LET s1 == BaseUnsubscribe(s, d, sub)
  IN IF ~HasSubscribers(s1, d) THEN Free(s1, d) ELSE s1

\* publisher.unsubscribe(sub), dispatched on the publisher's class
Unsubscribe(s, p, sub) ==
  IF p \in Derivs THEN DerivativeUnsubscribe(s, p, sub) ELSE BaseUnsubscribe(s, p, sub)

\* pubs.forEach(p => p.unsubscribe(d))
UnsubscribeFrom(s, pubs, d) ==
  IF pubs = <<>> THEN s
  ELSE UnsubscribeFrom(Unsubscribe(s, Head(pubs), d), Tail(pubs), d)

\* free() that clears the derivative but leaves it subscribed upstream
MutFree(s, d) ==
  [s EXCEPT !.valid[d] = FALSE, !.memo[d] = Undefined, !.evalsSince[d] = 0,
            !.subscriptions[d] = <<>>,
            !.frees = Append(@, [d |-> d, held |-> Len(s.subscriptions[d])])]

\* ReactiveDerivative.free
Free(s, d) ==
  LET s1 == [s EXCEPT !.valid[d] = FALSE, !.memo[d] = Undefined, !.evalsSince[d] = 0,
                       !.frees = Append(@, [d |-> d, held |-> Len(s.subscriptions[d])])]
      s2 == UnsubscribeFrom(s1, s1.subscriptions[d], d)
  IN [s2 EXCEPT !.subscriptions[d] = <<>>]

\* a subscribeTo that does not record the publisher
MutSubscribeTo(s, d, p) == Subscribe(s, p, d)

\* ReactiveDerivative.subscribeTo
SubscribeTo(s, d, p) ==
  LET s1 == Subscribe(s, p, d)
  IN [s1 EXCEPT !.subscriptions[d] = Add(@, p)]

\* Reactive.get(tracker): register the tracker, then read
Get(s, n, tracker) == Unwrap(SubscribeTo(s, tracker, n), n)

\* a derivation that adds up the nodes it reads, left to right
Sum(s, reads, i, acc, d) ==
  IF i > Len(reads) THEN [s |-> s, v |-> acc]
  ELSE LET r == Get(s, reads[i], d)
       IN Sum(r.s, reads, i + 1, Plus(acc, r.v), d)

\* this.derivation(this): the derivation function of d, called with d as tracker
Derive(s, d) ==
  LET f == Derivation(d)
      s1 == [s EXCEPT !.evals = Append(@, d), !.evalsSince[d] = @ + 1]
  IN IF f.kind = "cond"
     THEN LET c == Get(s1, f.reads[1], d)
          IN IF Truthy(c.v) THEN Get(c.s, f.reads[2], d) ELSE Get(c.s, f.reads[3], d)
     ELSE Sum(s1, f.reads, 1, 0, d)

\* a re-evaluation that keeps the subscriptions of the previous one
MutPrune(s, old, d) == s

\* oldSubscriptions.forEach(s => this.subscriptions.has(s) || s.unsubscribe(this))
Prune(s, old, d) ==
  IF old = <<>> THEN s
  ELSE LET p == Head(old)
           s1 == IF Has(s.subscriptions[d], p) THEN s
                 ELSE Unsubscribe([s EXCEPT !.dropped[d] = @ \cup {p}], p, d)
       IN Prune(s1, Tail(old), d)

\* unwrap() that never sets this.valid
MutDerivativeUnwrap(s, d) ==
  IF s.valid[d] THEN [s |-> s, v |-> s.memo[d]]
  ELSE LET old == s.subscriptions[d]
           s1 == [s EXCEPT !.subscriptions[d] = <<>>]
           r == Derive(s1, d)
           s2 == [r.s EXCEPT !.memo[d] = r.v]
           s3 == Prune(s2, old, d)
       IN [s |-> s3, v |-> s3.memo[d]]

\* ReactiveDerivative.unwrap
DerivativeUnwrap(s, d) ==
  IF s.valid[d] THEN [s |-> s, v |-> s.memo[d]]
  ELSE LET old == s.subscriptions[d]
           s1 == [s EXCEPT !.subscriptions[d] = <<>>]
           r == Derive(s1, d)
           s2 == [r.s EXCEPT !.memo[d] = r.v]
           s3 == Prune(s2, old, d)
           s4 == [s3 EXCEPT !.valid[d] = TRUE]
       IN [s |-> s4, v |-> s4.memo[d]]

\* node.unwrap(): ReactiveValue.unwrap or ReactiveDerivative.unwrap
Unwrap(s, n) ==
  IF n \in Leaves THEN [s |-> s, v |-> s.value[n]] ELSE DerivativeUnwrap(s, n)

\* initial.forEach(u => u.update()), each call logged with its pass
UpdateEach(s, initial, pass) ==
  IF initial = <<>> THEN s
  ELSE LET sub == Head(initial)
           s1 == [s EXCEPT !.updates = Append(@, [pass |-> pass, sub |-> sub])]
       IN UpdateEach(Update(s1, sub), Tail(initial), pass)

\* this.subscribers.forEach(u => u.update()) on the live set: a subscriber added
\* meanwhile is visited, one removed meanwhile is not
UpdateLive(s, p, visited, pass) ==
  LET left == SelectSeq(s.subscribers[p], LAMBDA u : u \notin visited)
  IN IF left = <<>> THEN s
     ELSE LET sub == Head(left)
              s1 == [s EXCEPT !.updates = Append(@, [pass |-> pass, sub |-> sub])]
          IN UpdateLive(Update(s1, sub), p, visited \cup {sub}, pass)

\* updateSubscribers() without the copy
MutUpdateSubscribers(s, p) ==
  LET pass == Len(s.passes) + 1
      s1 == [s EXCEPT !.passes = Append(@, [pub |-> p, initial |-> s.subscribers[p]])]
  IN UpdateLive(s1, p, {}, pass)

\* Reactive.updateSubscribers: iterate over a copy of the subscriber set
UpdateSubscribers(s, p) ==
  LET initial == s.subscribers[p]
      pass == Len(s.passes) + 1
      s1 == [s EXCEPT !.passes = Append(@, [pub |-> p, initial |-> initial])]
  IN UpdateEach(s1, initial, pass)

\* an update() that evaluates the derivation at once
MutDerivativeUpdate(s, d) ==
  Unwrap(UpdateSubscribers([s EXCEPT !.valid[d] = FALSE, !.evalsSince[d] = 0], d), d).s

\* ReactiveDerivative.update
DerivativeUpdate(s, d) ==
  UpdateSubscribers([s EXCEPT !.valid[d] = FALSE, !.evalsSince[d] = 0], d)

\* ReactiveConsumer.update: this.consumer(this.base.unwrap())
ConsumerUpdate(s, k) ==
  LET r == Unwrap(s, s.base[k])
      s1 == [r.s EXCEPT !.calls =
               Append(@, [consumer |-> k, v |-> r.v, cancelled |-> r.s.cancelCalled[k]])]
  IN RunScript(s1, k)

\* subscriber.update(), dispatched on the subscriber's class
Update(s, sub) ==
  IF sub \in Derivs THEN DerivativeUpdate(s, sub) ELSE ConsumerUpdate(s, sub)

\* ReactiveConsumer.free
ConsumerFree(s, k) == Unsubscribe(s, s.base[k], k)

\* the cancel function returned by consume(): () => rc.free()
Cancel(s, k) == ConsumerFree([s EXCEPT !.cancelCalled[k] = TRUE], k)

\* a constructor that subscribes but forgets the first this.update()
MutNewConsumer(s, n, k, sc) ==
  LET s1 == [s EXCEPT !.base[k] = n, !.script[k] = sc]
  IN [Subscribe(s1, n, k) EXCEPT !.handle[k] = TRUE]

\* new ReactiveConsumer(base, consumer), then consume() returns the cancel function
NewConsumer(s, n, k, sc) ==
  LET s1 == [s EXCEPT !.base[k] = n, !.script[k] = sc]
      s2 == ConsumerUpdate(Subscribe(s1, n, k), k)
  IN [s2 EXCEPT !.handle[k] = TRUE]

\* the body of consumer k's callback after it has received the value:
\* nothing, a call of a cancel function it holds, or a consume() of its own
RunScript(s, k) ==
  LET sc == s.script[k]
  IN IF sc.kind = "cancel" /\ s.handle[sc.target] THEN Cancel(s, sc.target)
     ELSE IF sc.kind = "consume" /\ s.base[sc.target] = None
          THEN NewConsumer(s, sc.node, sc.target, NoScript)
     ELSE s

\* set() without the strict-equality short-circuit
MutSet(s, l, v) == UpdateSubscribers([s EXCEPT !.value[l] = v], l)

\* ReactiveValue.set
Set(s, l, v) ==
  IF StrictEq(v, s.value[l]) THEN s
  ELSE UpdateSubscribers([s EXCEPT !.value[l] = v], l)

(* ------------------------------ actions ------------------------------- *)

\* the heap the next operation starts from
Heap ==
  [value |-> value, subscribers |-> subscribers, valid |-> valid, memo |-> memo,
   subscriptions |-> subscriptions, base |-> base, script |-> script,
   handle |-> handle, cancelCalled |-> cancelCalled, evalsSince |-> evalsSince,
   dropped |-> dropped,
   calls |-> <<>>, passes |-> <<>>, updates |-> <<>>, evals |-> <<>>, frees |-> <<>>]

\* the heap an operation leaves behind
Commit(s, o) ==
  /\ value' = s.value
  /\ subscribers' = s.subscribers
  /\ valid' = s.valid
  /\ memo' = s.memo
  /\ subscriptions' = s.subscriptions
  /\ base' = s.base
  /\ script' = s.script
  /\ handle' = s.handle
  /\ cancelCalled' = s.cancelCalled
  /\ evalsSince' = s.evalsSince
  /\ dropped' = s.dropped
  /\ calls' = s.calls
  /\ passes' = s.passes
  /\ updates' = s.updates
  /\ evals' = s.evals
  /\ frees' = s.frees
  /\ op' = o
  /\ steps < MaxOps
  /\ steps' = steps + 1
  /\ UNCHANGED <<cacheVars, patchVars, toolVars>>

\* what the step did: the operation, the object it was called on, its argument
\* (a node or a value) and what it found: the value the leaf held before a set(),
\* 1 before a cancel() if the cancel function had been called already
Op(name, target, node, arg, old) ==
  [name |-> name, target |-> target, node |-> node, arg |-> arg, old |-> old]

\* Reactive.of(0) for each leaf, Reactive.derive(f) for each derivative
Init ==
  /\ value = [l \in Leaves |-> 0]
  /\ subscribers = [p \in Publishers |-> <<>>]
  /\ valid = [d \in Derivs |-> FALSE]
  /\ memo = [d \in Derivs |-> Undefined]
  /\ subscriptions = [d \in Derivs |-> <<>>]
  /\ base = [k \in Consumers |-> None]
  /\ script = [k \in Consumers |-> NoScript]
  /\ handle = [k \in Consumers |-> FALSE]
  /\ cancelCalled = [k \in Consumers |-> FALSE]
  /\ evalsSince = [d \in Derivs |-> 0]
  /\ dropped = [d \in Derivs |-> {}]
  /\ op = Op("init", None, None, 0, 0)
  /\ calls = <<>>
  /\ passes = <<>>
  /\ updates = <<>>
  /\ evals = <<>>
  /\ frees = <<>>
  /\ steps = 0
  /\ arrays = [r \in Raws |-> <<>>]
  /\ nodes = <<>>
  /\ DIRECT_CACHE = [r \in 1 .. MaxCells |-> Undefined]
  /\ NESTED_CACHE = [r \in 1 .. MaxCells |-> Undefined]
  /\ stable = [f \in {"of", "nest"} |-> [r \in Raws |-> Undefined]]
  /\ cop = [name |-> "init", raw |-> Undefined, node |-> Undefined, expected |-> Undefined]
  /\ evictions = <<>>
  /\ notified = <<>>
  /\ pop = [name |-> "init", node |-> Undefined, source |-> Undefined, key |-> 0, count |-> 0]
  /\ patches = 0
  /\ list = <<>>
  /\ sop = [name |-> "init", index |-> 0, count |-> 0, insert |-> <<>>, before |-> <<>>]
  /\ made = 0
  /\ splices = 0
  /\ nodeValue = [n \in {"A", "V", "X", "Y"} |->
                    IF n = "A" THEN [t |-> "arr", id |-> Undefined, v |-> 0, items |-> <<>>]
                    ELSE [t |-> "prim", id |-> Undefined, v |-> 0, items |-> <<>>]]
  /\ nodeSubscribers = [n \in {"A", "V", "X", "Y"} |-> <<>>]
  /\ derivation = [kind |-> "none", base |-> "A", keys |-> <<>>, values |-> <<>>]
  /\ dValid = FALSE
  /\ dValue = [t |-> "prim", id |-> Undefined, v |-> Undefined, items |-> <<>>]
  /\ dSubscriptions = <<>>
  /\ dEvals = 0
  /\ outcome = [name |-> "init", ok |-> TRUE,
                value |-> [t |-> "prim", id |-> Undefined, v |-> Undefined, items |-> <<>>]]
  /\ selOps = 0
  /\ pending = FALSE
  /\ deferred = 0
  /\ delay = 0
  /\ parameters = 0
  /\ promises = <<>>
  /\ delays = <<>>
  /\ microtasks = <<>>
  /\ events = <<>>
  /\ bop = "init"
  /\ intervalHandle = "none"
  /\ intervalLimit = Infinity
  /\ invocations = 0
  /\ awaiting = 0
  /\ program = [limit |-> 0, mode |-> "sync", cancelAt |-> 0]
  /\ arrayValue = <<>>
  /\ arrayDirty = FALSE
  /\ arrayOp = [name |-> "init", args |-> <<>>, before |-> <<>>, result |-> <<>>,
                updates |-> 0, passed |-> <<>>]
  /\ arrayOps = 0
  /\ equality = [compared |-> FALSE,
                 a |-> [t |-> "prim", id |-> Undefined, v |-> 0, items |-> <<>>],
                 b |-> [t |-> "prim", id |-> Undefined, v |-> 0, items |-> <<>>],
                 result |-> TRUE, swapped |-> TRUE]

\* leaf.set(v)
SetAct(l, v) ==
  /\ l \in Leaves
  /\ Commit(Set(Heap, l, v), Op("set", l, None, v, value[l]))

\* node.consume(callback)
ConsumeAct(n, k, sc) ==
  /\ base[k] = None
  /\ \A i \in 1 .. Len(ConsumerNames) : ConsumerNames[i] = k => \A j \in 1 .. i - 1 : base[ConsumerNames[j]] # None
  /\ Commit(NewConsumer(Heap, n, k, sc), Op("consume", k, n, 0, 0))

\* a call of the cancel function consume() returned
CancelAct(k) ==
  /\ handle[k]
  /\ Commit(Cancel(Heap, k), Op("cancel", k, base[k], 0, IF cancelCalled[k] THEN 1 ELSE 0))

\* derivative.unwrap() by a reader that is no subscriber
UnwrapAct(d) ==
  /\ d \in Derivs
  /\ Commit(Unwrap(Heap, d).s, Op("unwrap", d, None, 0, 0))

\* derivative.free()
FreeAct(d) ==
  /\ d \in Derivs
  /\ Commit(Free(Heap, d), Op("free", d, None, 0, 0))

Next ==
  \/ \E l \in Leaves : \E v \in LeafVals(l) : SetAct(l, v)
  \/ \E n \in Observed, k \in Consumers : \E sc \in Scripts(n, k) : ConsumeAct(n, k, sc)
  \/ \E k \in Consumers : CancelAct(k)
  \/ \E d \in Derivs : UnwrapAct(d)
  \/ \E d \in Derivs : FreeAct(d)

Spec == Init /\ [][Next]_vars

(* ------------------ src/reactivity: the identity cache ---------------- *)

\* A JavaScript value held by a variable, an array slot or a node: a primitive, a
\* reference to an array of the heap, or a reference to a Reactive instance.
Prim(x) == [t |-> "prim", v |-> x]
Ref(i) == [t |-> "ref", v |-> i]
Node(n) == [t |-> "node", v |-> n]
\* a reference to a plain object of the heap; the object is held as one slot for
\* each of Keys, Absent where the object has no such key
Obj(i) == [t |-> "obj", v |-> i]
Absent == [t |-> "absent", v |-> 0]

\* src/object.ts isObject: value !== null && typeof value === 'object'
isObject(x) == x.t \in {"ref", "obj", "node"}

\* What a comparison sees of a value: its type, its identity (Undefined for an
\* array that the call has just created), and its content.
RECURSIVE AsIs(_, _)
AsIs(h, x) ==
  IF x.t \in {"ref", "obj"}
  THEN [t |-> IF x.t = "ref" THEN "arr" ELSE "obj", id |-> x.v, v |-> 0,
        items |-> [i \in 1 .. Len(h.arrays[x.v]) |-> AsIs(h, h.arrays[x.v][i])]]
  ELSE IF x.t = "node" THEN [t |-> "node", id |-> x.v, v |-> 0, items |-> <<>>]
  ELSE [t |-> x.t, id |-> Undefined, v |-> x.v, items |-> <<>>]

\* Reactive.unnest(value, NO_TRACK): a deep copy with every node replaced by its value
RECURSIVE unnest(_, _)
unnest(h, x) ==
  IF x.t = "node" THEN unnest(h, h.nodes[x.v].value)
  ELSE IF x.t \in {"ref", "obj"}
  THEN [t |-> IF x.t = "ref" THEN "arr" ELSE "obj", id |-> Undefined, v |-> 0,
        items |-> [i \in 1 .. Len(h.arrays[x.v]) |-> unnest(h, h.arrays[x.v][i])]]
  ELSE [t |-> x.t, id |-> Undefined, v |-> x.v, items |-> <<>>]

\* a === b
Identical(a, b) ==
  IF a.t # b.t THEN FALSE
  ELSE IF a.t = "prim" THEN StrictEq(a.v, b.v)
  ELSE a.id = b.id /\ a.id # Undefined

\* b[Keys[k]] as a read sees it: undefined where b has no such key, as every
\* array, whose keys are its indices
Property(b, k) ==
  IF b.t # "obj" \/ b.items[k].t = "absent"
  THEN [t |-> "prim", id |-> Undefined, v |-> Undefined, items |-> <<>>]
  ELSE b.items[k]

\* Object.keys(o) of a plain object, as indices of Keys
ObjectKeys(o) == {k \in 1 .. Len(o.items) : o.items[k].t # "absent"}

\* Object.keys(b).length of an array or a plain object
KeyCount(b) == IF b.t = "obj" THEN Cardinality(ObjectKeys(b)) ELSE Len(b.items)

\* src/general.ts areEqual. A Reactive instance has the keys of its fields, which
\* no array and no other instance shares: the comparison of the keys fails.
RECURSIVE areEqual(_, _)
areEqual(a, b) ==
  IF Identical(a, b) THEN TRUE
  ELSE IF a.t = "prim" \/ b.t = "prim" THEN FALSE
  ELSE IF a.t = "arr"
  THEN /\ b.t = "arr"
       /\ Len(a.items) = Len(b.items)
       /\ \A i \in 1 .. Len(a.items) : areEqual(a.items[i], b.items[i])
  ELSE IF a.t = "obj" /\ b.t \in {"obj", "arr"}
  THEN /\ KeyCount(a) = KeyCount(b)
       /\ \A k \in ObjectKeys(a) : areEqual(a.items[k], Property(b, k))
  ELSE FALSE

\* WeakReactiveCache.supports
supports(raw) == isObject(raw)

\* WeakReactiveCache.set; NO_CACHE.set is ignore
CacheSet(h, cache, raw, n) ==
  IF cache # "NO_CACHE" /\ supports(raw) THEN [h EXCEPT ![cache][raw.v] = n] ELSE h

\* a get() that returns the entry without comparing it with raw
MutCacheGet(h, cache, raw) ==
  IF cache = "NO_CACHE" \/ ~supports(raw) THEN [h |-> h, node |-> Undefined]
  ELSE [h |-> h, node |-> h[cache][raw.v]]

\* WeakReactiveCache.get; NO_CACHE.get is ignore
CacheGet(h, cache, raw) ==
  IF cache = "NO_CACHE" \/ ~supports(raw) THEN [h |-> h, node |-> Undefined]
  ELSE LET reactive == h[cache][raw.v]
       IN IF reactive = Undefined THEN [h |-> h, node |-> Undefined]
          ELSE IF areEqual(AsIs(h, raw), unnest(h, Node(reactive)))
               THEN [h |-> h, node |-> reactive]
               ELSE [h |-> [h EXCEPT ![cache][raw.v] = Undefined,
                                     !.evictions = Append(@, [cache |-> cache, raw |-> raw.v,
                                                              node |-> reactive])],
                     node |-> Undefined]

\* Reactive.of(source, createComponent, cache)
of(h, source, createComponent, cache) ==
  IF source.t = "node" THEN [h |-> h, node |-> source.v]
  ELSE LET got == CacheGet(h, cache, source)
       IN IF got.node # Undefined THEN got
          ELSE LET n == Len(got.h.nodes) + 1
                   class == IF source.t = "ref" THEN "ReactiveArray"
                            ELSE IF source.t = "obj" THEN "ReactiveObject"
                            ELSE "ReactiveValue"
                   h1 == [got.h EXCEPT !.nodes =
                            Append(@, [class |-> class, value |-> source,
                                       createComponent |-> createComponent,
                                       dirty |-> FALSE])]
               IN [h |-> CacheSet(h1, cache, source, n), node |-> n]

\* source.map(v => Reactive.of(v, childCache)) with the default childCache
RECURSIVE MapOf(_, _, _, _)
MapOf(h, source, i, out) ==
  IF i > Len(source) THEN [h |-> h, out |-> out]
  ELSE IF source[i].t = "absent" THEN MapOf(h, source, i + 1, Append(out, Absent))
  ELSE LET r == of(h, source[i], "passThrough", "DIRECT_CACHE")
       IN MapOf(r.h, source, i + 1, Append(out, Node(r.node)))

\* Reactive.nest(source) with the default caches
nest(h, source) ==
  IF source.t = "node" THEN [h |-> h, node |-> source.v]
  ELSE LET got == CacheGet(h, "NESTED_CACHE", source)
       IN IF got.node # Undefined THEN got
          ELSE LET m == MapOf(got.h, got.h.arrays[source.v], 1, <<>>)
                   nested == Len(m.h.arrays) + 1
                   h1 == [m.h EXCEPT !.arrays = Append(@, m.out)]
                   r == of(h1, [t |-> source.t, v |-> nested], "of", "NO_CACHE")
               IN [h |-> CacheSet(r.h, "NESTED_CACHE", source, r.node), node |-> r.node]

\* ReactiveValue.set on a node that nobody subscribes to
NodeSet(h, n, x) ==
  IF Identical(AsIs(h, x), AsIs(h, h.nodes[n].value)) THEN h
  ELSE [h EXCEPT !.nodes[n].value = x]

\* the heap of the cache operations
CacheHeap ==
  [arrays |-> arrays, nodes |-> nodes,
   DIRECT_CACHE |-> DIRECT_CACHE, NESTED_CACHE |-> NESTED_CACHE, evictions |-> <<>>,
   notified |-> <<>>]

NoStable == [f \in {"of", "nest"} |-> [r \in Raws |-> Undefined]]

\* the heap a cache operation leaves behind; a mutation ends every run of calls
\* on an unchanged heap
CacheCommit(h, c, st) ==
  /\ arrays' = h.arrays
  /\ nodes' = h.nodes
  /\ DIRECT_CACHE' = h.DIRECT_CACHE
  /\ NESTED_CACHE' = h.NESTED_CACHE
  /\ cop' = c
  /\ stable' = st
  /\ evictions' = h.evictions
  /\ notified' = h.notified
  /\ steps < MaxOps
  /\ steps' = steps + 1
  /\ Len(h.nodes) <= MaxNodes
  /\ UNCHANGED <<graphVars, patchVars, toolVars>>

\* what the step did: the call, the raw array it was given, the node it returned
\* and the node the same call returned before, no mutation having happened since
CacheOp(name, raw, node, expected) ==
  [name |-> name, raw |-> raw, node |-> node, expected |-> expected]

\* Reactive.of(r)
OfAct(r) ==
  /\ r \in Raws
  /\ LET res == of(CacheHeap, Ref(r), "passThrough", "DIRECT_CACHE")
     IN CacheCommit(res.h, CacheOp("of", r, res.node, stable["of"][r]),
                    [stable EXCEPT !["of"][r] = res.node])

\* Reactive.nest(r)
NestAct(r) ==
  /\ r \in Raws
  /\ LET res == nest(CacheHeap, Ref(r))
     IN CacheCommit(res.h, CacheOp("nest", r, res.node, stable["nest"][r]),
                    [stable EXCEPT !["nest"][r] = res.node])

\* r.push(v) by the owner of the raw array
PushAct(r, v) ==
  /\ Len(arrays[r]) < MaxLen
  /\ CacheCommit([CacheHeap EXCEPT !.arrays[r] = Append(@, Prim(v))],
                 CacheOp("push", r, Undefined, Undefined), NoStable)

\* r[i] = v by the owner of the raw array
WriteAct(r, i, v) ==
  /\ i \in 1 .. Len(arrays[r])
  /\ arrays[r][i] # Prim(v)
  /\ CacheCommit([CacheHeap EXCEPT !.arrays[r][i] = Prim(v)],
                 CacheOp("write", r, Undefined, Undefined), NoStable)

\* node.set(v) on a ReactiveValue that Reactive.nest created
ValueSetAct(n, v) ==
  /\ n \in 1 .. Len(nodes)
  /\ nodes[n].class = "ReactiveValue"
  /\ CacheCommit(NodeSet(CacheHeap, n, Prim(v)),
                 CacheOp("set", Undefined, n, Undefined), NoStable)

\* node.set(r) on a ReactiveArray
ArraySetAct(n, r) ==
  /\ n \in 1 .. Len(nodes)
  /\ nodes[n].class = "ReactiveArray"
  /\ CacheCommit(NodeSet(CacheHeap, n, Ref(r)),
                 CacheOp("set", r, n, Undefined), NoStable)

CacheNext ==
  \/ \E r \in Raws : OfAct(r)
  \/ \E r \in Raws : NestAct(r)
  \/ \E r \in Raws : \E v \in Val : PushAct(r, v)
  \/ \E r \in Raws : \E i \in 1 .. MaxLen : \E v \in Val : WriteAct(r, i, v)
  \/ \E n \in 1 .. MaxNodes : \E v \in Val : ValueSetAct(n, v)
  \/ \E n \in 1 .. MaxNodes : \E r \in Raws : ArraySetAct(n, r)

SpecCache == Init /\ [][CacheNext]_vars

(* ---------------- src/array.ts: indices and ranges ---------------- *)

Min(a, b) == IF a < b THEN a ELSE b
Max(a, b) == IF a > b THEN a ELSE b

\* src/array.ts mirrorIndex
mirrorIndex(index, limit) == IF index < 0 THEN index + limit ELSE index

\* a start index that is not counted back from the end
MutNormalizeRangeStart(limit, start) == Min(Max(0, start), limit)

\* src/array.ts normalizeRangeStart
normalizeRangeStart(limit, start) == Min(Max(0, mirrorIndex(start, limit)), limit)

\* src/array.ts normalizeRangeEnd
normalizeRangeEnd(limit, end, start) == Max(mirrorIndex(end, limit), mirrorIndex(start, limit))

\* src/array.ts normalizeRangeLength
normalizeRangeLength(limit, length, start) ==
  LET s == normalizeRangeStart(limit, start)
  IN normalizeRangeEnd(limit, s + length, 0) - s

\* Array.prototype.splice(start, deleteCount, ...items) of the language, on a
\* sequence whose index 0 is position 1
NativeSplice(a, start, deleteCount, items) ==
  LET len == Len(a)
      s == IF start < 0 THEN Max(len + start, 0) ELSE Min(start, len)
      dc == Min(Max(deleteCount, 0), len - s)
  IN SubSeq(a, 1, s) \o items \o SubSeq(a, s + dc + 1, len)

(* ---------------- src/reactivity: containers and patch ---------------- *)

\* Plain values that the program under test writes as literals: what unnest
\* returns, none of them held by the heap yet.
PlainPrim(x) == [t |-> "prim", id |-> Undefined, v |-> x, items |-> <<>>]
PlainArr(items) == [t |-> "arr", id |-> Undefined, v |-> 0, items |-> items]
PlainObj(items) == [t |-> "obj", id |-> Undefined, v |-> 0, items |-> items]
PlainAbsent == [t |-> "absent", id |-> Undefined, v |-> 0, items |-> <<>>]

\* the components of the literals: a number, or an array of at most one number
Elements ==
  {PlainPrim(v) : v \in Val} \cup {PlainArr(<<>>)} \cup {PlainArr(<<PlainPrim(v)>>) : v \in 0 .. 1}

\* the literals given to patch(): arrays of up to two components, objects with
\* any of Keys
ArraySources == UNION {{PlainArr(s) : s \in [1 .. n -> Elements]} : n \in 0 .. 2}
ObjectSources == {PlainObj(s) : s \in [1 .. Len(Keys) -> Elements \cup {PlainAbsent}]}

\* the literals given to Reactive.of and Reactive.nest
Roots ==
  {PlainArr(<<>>),
   PlainArr(<<PlainPrim(0), PlainArr(<<PlainPrim(0)>>)>>),
   PlainArr(<<PlainArr(<<>>), PlainPrim(1)>>),
   PlainObj(<<PlainAbsent, PlainAbsent>>),
   PlainObj(<<PlainPrim(0), PlainArr(<<PlainPrim(0)>>)>>),
   PlainObj(<<PlainPrim(1), PlainAbsent>>)}

\* the evaluation of a literal: its arrays and objects are created on the heap
RECURSIVE Alloc(_, _)
RECURSIVE AllocItems(_, _, _, _)
AllocItems(h, items, i, out) ==
  IF i > Len(items) THEN [h |-> h, out |-> out]
  ELSE LET a == Alloc(h, items[i])
       IN AllocItems(a.h, items, i + 1, Append(out, a.term))

Alloc(h, plain) ==
  IF plain.t \in {"prim", "absent"} THEN [h |-> h, term |-> [t |-> plain.t, v |-> plain.v]]
  ELSE LET a == AllocItems(h, plain.items, 1, <<>>)
           cell == Len(a.h.arrays) + 1
       IN [h |-> [a.h EXCEPT !.arrays = Append(@, a.out)],
           term |-> [t |-> IF plain.t = "arr" THEN "ref" ELSE "obj", v |-> cell]]

\* the arrays and objects that the evaluation of a literal creates
RECURSIVE Cells(_)
RECURSIVE CellsFrom(_, _)
CellsFrom(items, i) == IF i > Len(items) THEN 0 ELSE Cells(items[i]) + CellsFrom(items, i + 1)

Cells(plain) == IF plain.t \in {"prim", "absent"} THEN 0 ELSE 1 + CellsFrom(plain.items, 1)

\* Reactive.updateSubscribers of a node of the heap
Notify(h, n) == [h EXCEPT !.notified = Append(@, n)]

\* ReactiveValue.set
ValueSet(h, n, x) ==
  IF Identical(AsIs(h, x), AsIs(h, h.nodes[n].value)) THEN h
  ELSE Notify([h EXCEPT !.nodes[n].value = x], n)

\* this.wrapComponent(value): passThrough for a node made by Reactive.of,
\* v => Reactive.of(v, childCache) for one made by Reactive.nest
wrapComponent(h, n, x) ==
  IF h.nodes[n].createComponent = "of"
  THEN LET r == of(h, x, "passThrough", "DIRECT_CACHE")
       IN [h |-> r.h, term |-> Node(r.node)]
  ELSE [h |-> h, term |-> x]

\* this.value[k] = x, for k up to this.value.length
Assign(seq, k, x) == IF k > Len(seq) THEN Append(seq, x) ELSE [seq EXCEPT ![k] = x]

\* this.value[k]
Component(h, n, k) ==
  LET cell == h.arrays[h.nodes[n].value.v]
  IN IF k <= Len(cell) THEN cell[k] ELSE Absent

\* ReactiveContainer.commit
commit(h, n) ==
  IF h.nodes[n].dirty THEN [Notify(h, n) EXCEPT !.nodes[n].dirty = FALSE] ELSE h

\* ReactiveArray.truncate: doSplice(length, this.value.length - length)
truncate(h, n, length) ==
  LET cell == h.nodes[n].value.v
  IN IF Len(h.arrays[cell]) - length > 0
     THEN [h EXCEPT !.arrays[cell] = SubSeq(@, 1, length), !.nodes[n].dirty = TRUE]
     ELSE h

\* a doRemove that notifies the subscribers itself
MutDoRemove(h, n, k) ==
  IF Component(h, n, k).t # "absent"
  THEN Notify([h EXCEPT !.arrays[h.nodes[n].value.v][k] = Prim(Undefined),
                        !.nodes[n].dirty = TRUE], n)
  ELSE h

\* ReactiveObject.doRemove with the default REMOVAL_STRATEGY
doRemove(h, n, k) ==
  IF Component(h, n, k).t # "absent"
  THEN [h EXCEPT !.arrays[h.nodes[n].value.v][k] = Prim(Undefined), !.nodes[n].dirty = TRUE]
  ELSE h

RECURSIVE patch(_, _, _)
RECURSIVE patchComponent(_, _, _, _)
RECURSIVE PatchElements(_, _, _, _)
RECURSIVE PatchKeys(_, _, _, _)
RECURSIVE ReplaceComponents(_, _, _, _, _)

\* ReactiveContainer.patchComponent; the sources are plain values, which
\* convertPatchSource returns as they are
patchComponent(h, n, k, source) ==
  IF Component(h, n, k).t = "node" THEN patch(h, Component(h, n, k).v, source)
  ELSE LET a == Alloc(h, source)
           w == wrapComponent(a.h, n, a.term)
       IN [w.h EXCEPT !.arrays[h.nodes[n].value.v] = Assign(@, k, w.term),
                      !.nodes[n].dirty = TRUE]

\* source.forEach((v, i) => this.patchComponent(i, v))
PatchElements(h, n, source, i) ==
  IF i > Len(source.items) THEN h
  ELSE PatchElements(patchComponent(h, n, i, source.items[i]), n, source, i + 1)

\* allKeys.forEach(k => k in source ? this.patchComponent(k, source[k]) : this.doRemove(k))
PatchKeys(h, n, source, k) ==
  IF k > Len(Keys) THEN h
  ELSE IF source.items[k].t # "absent"
       THEN PatchKeys(patchComponent(h, n, k, source.items[k]), n, source, k + 1)
       ELSE PatchKeys(doRemove(h, n, k), n, source, k + 1)

\* an array patch that keeps the elements beyond source.length
MutArrayPatch(h, n, source) == commit(PatchElements(h, n, source, 1), n)

\* ReactiveArray.patch
ArrayPatch(h, n, source) ==
  commit(truncate(PatchElements(h, n, source, 1), n, Len(source.items)), n)

\* ReactiveObject.patch
ObjectPatch(h, n, source) == commit(PatchKeys(h, n, source, 1), n)

\* a remove that deletes the key
MutRemove(h, n, k) ==
  commit(IF Component(h, n, k).t # "absent"
         THEN [h EXCEPT !.arrays[h.nodes[n].value.v][k] = Absent, !.nodes[n].dirty = TRUE]
         ELSE h, n)

\* ReactiveObject.remove
remove(h, n, k) == commit(doRemove(h, n, k), n)

\* insertValues.map(this.wrapElement)
RECURSIVE WrapElements(_, _, _, _, _)
WrapElements(h, n, values, i, out) ==
  IF i > Len(values) THEN [h |-> h, out |-> out]
  ELSE LET a == Alloc(h, values[i])
           w == wrapComponent(a.h, n, a.term)
       IN WrapElements(w.h, n, values, i + 1, Append(out, w.term))

\* ReactiveArray.doSplice
doSplice(h, n, index, removeCount, insertValues) ==
  IF removeCount > 0 \/ Len(insertValues) > 0
  THEN LET w == WrapElements(h, n, insertValues, 1, <<>>)
       IN [w.h EXCEPT !.arrays[h.nodes[n].value.v] = NativeSplice(@, index, removeCount, w.out),
                      !.nodes[n].dirty = TRUE]
  ELSE h

\* toReplace.forEach(v => this.patchComponent(index++, v))
ReplaceComponents(h, n, index, toReplace, i) ==
  IF i > Len(toReplace) THEN h
  ELSE ReplaceComponents(patchComponent(h, n, index + 1, toReplace[i]), n, index + 1,
                         toReplace, i + 1)

\* a splice that removes and inserts without patching in place
MutArraySplice(h, n, index0, removeCount0, insertValues) ==
  LET limit == Len(h.arrays[h.nodes[n].value.v])
      index == normalizeRangeStart(limit, index0)
  IN commit(doSplice(h, n, index, normalizeRangeLength(limit, removeCount0, index),
                     insertValues), n)

\* ReactiveArray.splice
ArraySplice(h, n, index0, removeCount0, insertValues) ==
  LET limit == Len(h.arrays[h.nodes[n].value.v])
      index == normalizeRangeStart(limit, index0)
      removeCount == normalizeRangeLength(limit, removeCount0, index)
      toReplace == SubSeq(insertValues, 1, Min(Max(removeCount, 0), Len(insertValues)))
      toInsert == SubSeq(insertValues, Len(toReplace) + 1, Len(insertValues))
      replaced == ReplaceComponents(h, n, index, toReplace, 1)
  IN commit(doSplice(replaced, n, index + Len(toReplace), removeCount - Len(toReplace),
                     toInsert), n)

\* ReactiveValue.patch: this.set(Reactive.unwrap(source, NO_TRACK))
ValuePatch(h, n, source) ==
  LET a == Alloc(h, source)
  IN ValueSet(a.h, n, a.term)

\* node.patch(source), dispatched on the node's class
patch(h, n, source) ==
  IF h.nodes[n].class = "ReactiveArray" THEN ArrayPatch(h, n, source)
  ELSE IF h.nodes[n].class = "ReactiveObject" THEN ObjectPatch(h, n, source)
  ELSE ValuePatch(h, n, source)

\* source has the type PatchSource<T> of the node: an array for a ReactiveArray, an
\* object for a ReactiveObject, and so on for the components that are nodes
RECURSIVE Shaped(_, _, _)
Shaped(h, n, source) ==
  IF h.nodes[n].class = "ReactiveValue" THEN source.t # "absent"
  ELSE /\ source.t = (IF h.nodes[n].class = "ReactiveArray" THEN "arr" ELSE "obj")
       /\ \A k \in 1 .. Len(source.items) :
            (Component(h, n, k).t = "node" /\ source.items[k].t # "absent")
            => Shaped(h, Component(h, n, k).v, source.items[k])

\* the heap a container operation leaves behind
PatchCommit(h, o) ==
  /\ arrays' = h.arrays
  /\ nodes' = h.nodes
  /\ DIRECT_CACHE' = h.DIRECT_CACHE
  /\ NESTED_CACHE' = h.NESTED_CACHE
  /\ evictions' = h.evictions
  /\ notified' = h.notified
  /\ pop' = o
  /\ patches' = patches + (IF o.name \in {"patch", "remove", "splice"} THEN 1 ELSE 0)
  /\ UNCHANGED <<graphVars, stable, cop, toolVars, steps>>

\* const r = <literal>; Reactive.of(r) or Reactive.nest(r), once
WrapAct(lit, how) ==
  /\ nodes = <<>>
  /\ Len(arrays) + Cells(lit) + 1 <= MaxCells
  /\ LET a == Alloc(CacheHeap, lit)
         r == IF how = "of" THEN of(a.h, a.term, "passThrough", "DIRECT_CACHE")
              ELSE nest(a.h, a.term)
     IN PatchCommit(r.h, [name |-> how, node |-> r.node, source |-> lit, key |-> 0, count |-> 0])

\* node.patch(source)
PatchAct(n, source) ==
  /\ n \in 1 .. Len(nodes)
  /\ nodes[n].class # "ReactiveValue"
  /\ Shaped(CacheHeap, n, source)
  /\ patches < MaxPatches
  /\ Len(arrays) + Cells(source) <= MaxCells
  /\ PatchCommit(patch(CacheHeap, n, source),
                 [name |-> "patch", node |-> n, source |-> source, key |-> 0, count |-> 0])

\* node.remove(Keys[k])
RemoveAct(n, k) ==
  /\ n \in 1 .. Len(nodes)
  /\ nodes[n].class = "ReactiveObject"
  /\ patches < MaxPatches
  /\ PatchCommit(remove(CacheHeap, n, k),
                 [name |-> "remove", node |-> n, source |-> Undefined, key |-> k, count |-> 0])

\* the values that splice() is given to insert
SpliceValues ==
  UNION {[1 .. m -> {PlainPrim(1), PlainArr(<<PlainPrim(1)>>)}] : m \in 0 .. MaxCount}

\* the indices that splice() is given on the arrays of the heap
SpliceIndices == (0 - MaxLen) .. MaxLen

\* node.splice(index, removeCount, insertValues) on an array of the heap; a value
\* that patches a child in place has the type of the child
SpliceNodeAct(n, index, removeCount, insertValues) ==
  /\ n \in 1 .. Len(nodes)
  /\ nodes[n].class = "ReactiveArray"
  /\ patches < MaxPatches
  /\ Len(arrays) + CellsFrom(insertValues, 1) <= MaxCells
  /\ LET from == normalizeRangeStart(Len(arrays[nodes[n].value.v]), index)
     IN \A i \in 1 .. Min(removeCount, Len(insertValues)) :
          Component(CacheHeap, n, from + i).t = "node"
          => Shaped(CacheHeap, Component(CacheHeap, n, from + i).v, insertValues[i])
  /\ PatchCommit(ArraySplice(CacheHeap, n, index, removeCount, insertValues),
                 [name |-> "splice", node |-> n, source |-> PlainArr(insertValues),
                  key |-> index, count |-> removeCount])

PatchNext ==
  \/ \E lit \in Roots, how \in {"of", "nest"} : WrapAct(lit, how)
  \/ \E n \in 1 .. MaxCells : \E source \in ArraySources \cup ObjectSources : PatchAct(n, source)
  \/ \E n \in 1 .. MaxCells : \E k \in 1 .. Len(Keys) : RemoveAct(n, k)
  \/ \E n \in 1 .. MaxCells, index \in SpliceIndices, removeCount \in 0 .. MaxCount :
       \E insertValues \in SpliceValues : SpliceNodeAct(n, index, removeCount, insertValues)

SpecPatch == Init /\ [][PatchNext]_vars

(* ---------------- src/array.ts and ReactiveArray.splice ---------------- *)

\* toReplace.forEach(v => this.patchComponent(index++, v)) on plain elements:
\* this.value[index] = v
RECURSIVE Replace(_, _, _, _)
Replace(a, index, toReplace, i) ==
  IF i > Len(toReplace) THEN a
  ELSE Replace(Assign(a, index + 1, toReplace[i]), index + 1, toReplace, i + 1)

\* ReactiveArray.splice then doSplice, on the elements of an array made by
\* Reactive.of (wrapElement is passThrough)
splice(a, index0, removeCount0, insertValues) ==
  LET limit == Len(a)
      index == normalizeRangeStart(limit, index0)
      removeCount == normalizeRangeLength(limit, removeCount0, index)
      toReplace == SubSeq(insertValues, 1, Min(Max(removeCount, 0), Len(insertValues)))
      toInsert == SubSeq(insertValues, Len(toReplace) + 1, Len(insertValues))
      replaced == Replace(a, index, toReplace, 1)
      rest == removeCount - Len(toReplace)
  IN IF rest > 0 \/ Len(toInsert) > 0
     THEN NativeSplice(replaced, index + Len(toReplace), rest, toInsert)
     ELSE replaced

\* the indices the callers pass: around the array's bounds and far beyond them
Indices == (0 - MaxIndex) .. MaxIndex \cup {0 - Far, Far}

\* the array operation a step performed
SpliceCommit(a, o) ==
  /\ list' = a
  /\ sop' = o
  /\ made' = made + Len(o.insert)
  /\ made + Len(o.insert) <= MaxElems
  /\ UNCHANGED <<graphVars, cacheVars, patchVars, selectVars, debounceVars, intervalVars, arrayVars, equalVars, steps>>

\* reactive.addLast(x): this.splice(this.value.length, 0, values)
AddLastAct ==
  /\ UNCHANGED splices
  /\ SpliceCommit(splice(list, Len(list), 0, <<made>>),
                  [name |-> "addLast", index |-> Len(list), count |-> 0,
                   insert |-> <<made>>, before |-> list])

\* reactive.splice(index, removeCount, insertValues)
SpliceAct(index, removeCount, insertValues) ==
  /\ splices < MaxSplices
  /\ splices' = splices + 1
  /\ SpliceCommit(splice(list, index, removeCount, insertValues),
                  [name |-> "splice", index |-> index, count |-> removeCount,
                   insert |-> insertValues, before |-> list])

\* reactive.removeAt(index, count): this.splice(index, count)
RemoveAtAct(index, count) ==
  /\ splices < MaxSplices
  /\ splices' = splices + 1
  /\ SpliceCommit(splice(list, index, count, <<>>),
                  [name |-> "removeAt", index |-> index, count |-> count,
                   insert |-> <<>>, before |-> list])

SpliceNext ==
  \/ AddLastAct
  \/ \E index \in Indices, removeCount \in 0 .. MaxCount, n \in 0 .. 1 :
       SpliceAct(index, removeCount, [i \in 1 .. n |-> made])
  \/ \E index \in Indices, count \in 1 .. MaxCount : RemoveAtAct(index, count)

SpecSplice == Init /\ [][SpliceNext]_vars

(* ---------------- Reactive.select and Reactive.combine ---------------- *)

\* the nodes under select() and combine(): A = Reactive.of([]), V = Reactive.of(0),
\* X = Reactive.of(0), Y = Reactive.of(0)
SelectBases == {"A", "V"}
CombineLeaves == {"X", "Y"}
SelectNodes == SelectBases \cup CombineLeaves

\* the values V is set to: numbers, null, undefined and an object with the key a
ValueVals ==
  {PlainPrim(0), PlainPrim(Null), PlainPrim(Undefined),
   PlainObj(<<PlainPrim(1), PlainAbsent>>),
   PlainObj(<<PlainArr(<<PlainPrim(1)>>), PlainAbsent>>)}

\* the values a leaf of combine() is set to
NumberVals == {PlainPrim(n) : n \in 0 .. MaxVal}

\* the elements added to A: numbers and arrays of one number
ArrayElements == NumberVals \cup {PlainArr(<<PlainPrim(1)>>)}

\* a key given to select(): an index or a property name (as an index of Keys)
IndexKey(i) == [t |-> "index", v |-> i]
NameKey(k) == [t |-> "name", v |-> k]
SelectKeys == {IndexKey(i) : i \in (0 - MaxKey) .. MaxKey} \cup {NameKey(k) : k \in 1 .. Len(Keys)}

\* the key chains given to select(): one key, or one key and then index 0, index -1
\* or the name a
KeyChains ==
  {<<k>> : k \in SelectKeys}
  \cup {<<k, l>> : k \in SelectKeys, l \in {IndexKey(0), IndexKey(0 - 1), NameKey(1)}}

\* the arrays given to combine(): plain numbers and the leaves X and Y
PlainValue(n) == [t |-> "plain", v |-> n]
NodeValue(n) == [t |-> "node", v |-> n]
CombineValues ==
  {<<x, y>> : x \in {PlainValue(1), NodeValue("X")},
              y \in {PlainValue(0), PlainValue(1), NodeValue("X"), NodeValue("Y")}}

\* src/types isPresent
isPresent(x) == ~(x.t = "prim" /\ x.v \in {Null, Undefined})

\* value[mirrorIndex(Number(key), value.length)] of an array: Number(key) of a
\* property name is NaN, and an array has no element at NaN
ElementAt(x, key) ==
  IF key.t = "name" THEN PlainPrim(Undefined)
  ELSE LET i == mirrorIndex(key.v, Len(x.items))
       IN IF i >= 0 /\ i < Len(x.items) THEN x.items[i + 1] ELSE PlainPrim(Undefined)

\* value[key] of a value that is no array and neither null nor undefined: a
\* property of an object, undefined for a number
MemberAt(x, key) ==
  IF x.t = "obj" /\ key.t = "name" THEN Property(x, key.v) ELSE PlainPrim(Undefined)

\* a node as a value: what a property that holds the node, or a derivation that
\* returns it, hands to its reader
ReactiveView(n) ==
  [t |-> "node", id |-> IF n = "X" THEN 1 ELSE 2, v |-> 0, items |-> <<>>]

\* the node such a value is
NodeOf(x) == IF x.id = 1 THEN "X" ELSE "Y"

\* Reactive.unwrap(value, t): while (value instanceof Reactive) value = value.get(t),
\* where get(t) subscribes the tracker before it reads
RECURSIVE ReactiveUnwrap(_, _, _)
ReactiveUnwrap(g, x, tracked) ==
  IF x.t = "node" THEN ReactiveUnwrap(g, g.value[NodeOf(x)], Add(tracked, NodeOf(x)))
  ELSE [value |-> x, tracked |-> tracked]

\* the loop of the derivation of select(...keys), from the value x that the
\* keys before keys[i] led to and the publishers tracked so far; ok is FALSE where
\* it throws 'invalid selection'
RECURSIVE Selection(_, _, _, _, _)
Selection(g, x, keys, i, tracked) ==
  IF i > Len(keys) THEN [ok |-> TRUE, value |-> x, tracked |-> tracked]
  ELSE LET u == ReactiveUnwrap(g, x, tracked)
       IN IF u.value.t = "arr"
          THEN Selection(g, ElementAt(u.value, keys[i]), keys, i + 1, u.tracked)
          ELSE IF isPresent(u.value)
          THEN Selection(g, MemberAt(u.value, keys[i]), keys, i + 1, u.tracked)
          ELSE [ok |-> FALSE, value |-> PlainPrim(Undefined), tracked |-> u.tracked]

\* the transformation given to combine(): ([a, b]) => a + b
Transform(raw) == PlainPrim(Plus(raw[1].v, raw[2].v))

\* values.map(v => Reactive.unwrap(v, t))
RawValues(g, values) ==
  [i \in 1 .. Len(values) |->
     IF values[i].t = "node" THEN g.value[values[i].v] ELSE PlainPrim(values[i].v)]

\* the publishers that values.map(v => Reactive.unwrap(v, t)) subscribes to, in order
RECURSIVE TrackedIn(_, _, _)
TrackedIn(values, i, out) ==
  IF i > Len(values) THEN out
  ELSE TrackedIn(values, i + 1, IF values[i].t = "node" THEN Add(out, values[i].v) ELSE out)

\* the state of the nodes and of the derivative D that select() or combine() returned
SelectHeap ==
  [value |-> nodeValue, subscribers |-> nodeSubscribers, derivation |-> derivation,
   valid |-> dValid, memo |-> dValue, subscriptions |-> dSubscriptions, evals |-> dEvals]

\* what the derivation of D reads and returns; ReactiveDerivative.unwrap keeps
\* the result of this.derivation(this) as it is
Derived(g) ==
  IF g.derivation.kind = "select"
  THEN LET r == Selection(g, g.value[g.derivation.base], g.derivation.keys, 1,
                          <<g.derivation.base>>)
       IN [tracked |-> r.tracked, result |-> [ok |-> r.ok, value |-> r.value]]
  ELSE IF g.derivation.kind = "node"
  THEN [tracked |-> <<>>, result |-> [ok |-> TRUE, value |-> ReactiveView(g.derivation.base)]]
  ELSE [tracked |-> TrackedIn(g.derivation.values, 1, <<>>),
        result |-> [ok |-> TRUE, value |-> Transform(RawValues(g, g.derivation.values))]]

\* publisher.subscribe(D) for each tracked publisher
Subscribed(subs, tracked) ==
  [n \in SelectNodes |-> IF Has(tracked, n) THEN Add(subs[n], "D") ELSE subs[n]]

\* oldSubscriptions.forEach(s => this.subscriptions.has(s) || s.unsubscribe(this))
Unsubscribed(subs, old, now) ==
  [n \in SelectNodes |-> IF Has(old, n) /\ ~Has(now, n) THEN Delete(subs[n], "D") ELSE subs[n]]

\* ReactiveDerivative.unwrap of D; a derivation that throws leaves the derivative
\* invalid, with the subscriptions made before the throw
DerivativeEval(g) ==
  IF g.valid THEN [g |-> g, ok |-> TRUE, value |-> g.memo]
  ELSE LET d == Derived(g)
           g1 == [g EXCEPT !.subscriptions = d.tracked,
                           !.subscribers = Subscribed(@, d.tracked),
                           !.evals = @ + 1]
       IN IF ~d.result.ok THEN [g |-> g1, ok |-> FALSE, value |-> PlainPrim(Undefined)]
          ELSE [g |-> [g1 EXCEPT !.memo = d.result.value,
                                 !.subscribers = Unsubscribed(@, g.subscriptions, d.tracked),
                                 !.valid = TRUE],
                ok |-> TRUE, value |-> d.result.value]

\* Reactive.updateSubscribers of a node: D.update() if D subscribes
NodeUpdate(g, n) == IF Has(g.subscribers[n], "D") THEN [g EXCEPT !.valid = FALSE] ELSE g

\* a set that does not update the subscribers
MutNodeValueSet(g, n, x) == [g EXCEPT !.value[n] = x]

\* ReactiveValue.set: ===, which no two distinct arrays or objects satisfy
NodeValueSet(g, n, x) ==
  IF x.t = "prim" /\ Identical(x, g.value[n]) THEN g
  ELSE NodeUpdate([g EXCEPT !.value[n] = x], n)

\* an addLast that does not commit
MutNodeAddLast(g, n, x) == [g EXCEPT !.value[n].items = Append(@, x)]

\* ReactiveArray.addLast on plain elements: splice, then commit
NodeAddLast(g, n, x) ==
  NodeUpdate([g EXCEPT !.value[n].items = splice(@, Len(@), 0, <<x>>)], n)

\* ReactiveArray.removeLast: removeAt(-1, 1); the commit finds the array dirty if
\* an element was removed
NodeRemoveLast(g, n) ==
  LET after == splice(g.value[n].items, 0 - 1, 1, <<>>)
  IN IF after = g.value[n].items THEN g
     ELSE NodeUpdate([g EXCEPT !.value[n].items = after], n)

\* ReactiveArray.swapAll(value, replacement) on plain elements: patchComponent
\* replaces each element that === value and marks the array dirty; swapAllBy
\* returns without a commit, so that no subscriber is updated
NodeSwapAll(g, n, x, replacement) ==
  [g EXCEPT !.value[n].items =
     [i \in 1 .. Len(@) |-> IF Identical(@[i], x) THEN replacement ELSE @[i]]]

\* ReactiveDerivative.free of D
DerivativeFree(g) ==
  [g EXCEPT !.valid = FALSE, !.memo = PlainPrim(Undefined),
            !.subscribers = Unsubscribed(@, g.subscriptions, <<>>),
            !.subscriptions = <<>>]

\* the state a call leaves behind, if it is among the first `most` calls
SelectCommitWithin(g, r, most) ==
  /\ nodeValue' = g.value
  /\ nodeSubscribers' = g.subscribers
  /\ derivation' = g.derivation
  /\ dValid' = g.valid
  /\ dValue' = g.memo
  /\ dSubscriptions' = g.subscriptions
  /\ dEvals' = g.evals
  /\ outcome' = r
  /\ selOps' = selOps + 1
  /\ selOps < most
  /\ UNCHANGED <<graphVars, cacheVars, patchVars, spliceVars, debounceVars, intervalVars, arrayVars, equalVars, steps>>

SelectCommit(g, r) == SelectCommitWithin(g, r, MaxSelOps)

NoResult == [ok |-> TRUE, value |-> PlainPrim(Undefined)]

SelectOp(name, r) == [name |-> name, ok |-> r.ok, value |-> r.value]

\* D = base.select(...keys)
SelectAct(b, keys) ==
  /\ derivation.kind = "none"
  /\ SelectCommit([SelectHeap EXCEPT !.derivation = [kind |-> "select", base |-> b,
                                                     keys |-> keys, values |-> <<>>]],
                  SelectOp("select", NoResult))

\* Reactive.combine(values, transform): D if a value is a node, the transformed
\* values otherwise
CombineAct(values) ==
  /\ derivation.kind = "none"
  /\ IF \E i \in 1 .. Len(values) : values[i].t = "node"
     THEN SelectCommit([SelectHeap EXCEPT !.derivation = [kind |-> "combine", base |-> "A",
                                                          keys |-> <<>>, values |-> values]],
                       SelectOp("combine", NoResult))
     ELSE SelectCommit(SelectHeap,
                       [name |-> "combined", ok |-> TRUE,
                        value |-> Transform(RawValues(SelectHeap, values)), values |-> values])

\* D = Reactive.derive(() => n): a derivation that returns a node
DeriveNodeAct(n) ==
  /\ derivation.kind = "none"
  /\ SelectCommit([SelectHeap EXCEPT !.derivation = [kind |-> "node", base |-> n,
                                                     keys |-> <<>>, values |-> <<>>]],
                  SelectOp("derive", NoResult))

\* D.unwrap()
SelectUnwrapAct ==
  /\ derivation.kind # "none"
  /\ LET e == DerivativeEval(SelectHeap)
     IN SelectCommit(e.g, SelectOp("unwrap", e))

\* node.set(x)
NodeSetAct(n, x) ==
  /\ n \in SelectNodes \ {"A"}
  /\ x \in (IF n = "V" THEN ValueVals ELSE NumberVals)
  /\ SelectCommit(NodeValueSet(SelectHeap, n, x), SelectOp("set", NoResult))

\* A.addLast(x)
NodeAddLastAct(x) ==
  /\ Len(nodeValue["A"].items) < MaxLen + 1
  /\ SelectCommit(NodeAddLast(SelectHeap, "A", x), SelectOp("addLast", NoResult))

\* A.removeLast()
NodeRemoveLastAct ==
  /\ SelectCommit(NodeRemoveLast(SelectHeap, "A"), SelectOp("removeLast", NoResult))

\* A.swapAll(x, replacement)
NodeSwapAllAct(x, replacement) ==
  /\ x \in NumberVals
  /\ SelectCommit(NodeSwapAll(SelectHeap, "A", x, replacement), SelectOp("swapAll", NoResult))

SelectNext ==
  \/ \E b \in SelectBases, keys \in KeyChains : SelectAct(b, keys)
  \/ \E values \in CombineValues : CombineAct(values)
  \/ \E n \in CombineLeaves : DeriveNodeAct(n)
  \/ SelectUnwrapAct
  \/ \E n \in SelectNodes, x \in ValueVals \cup NumberVals : NodeSetAct(n, x)
  \/ \E x \in ArrayElements : NodeAddLastAct(x)
  \/ NodeRemoveLastAct

SpecSelect == Init /\ [][SelectNext]_vars

\* the same nodes with swapAll() among the mutators of A
SwapAllNext ==
  \/ SelectNext
  \/ \E x \in NumberVals, replacement \in NumberVals : NodeSwapAllAct(x, replacement)

SpecSwapAll == Init /\ [][SwapAllNext]_vars

\* V.set({a: n}): an object whose property a holds the node n
NodeSetNestedAct(n) ==
  /\ n \in CombineLeaves
  /\ SelectCommit(NodeValueSet(SelectHeap, "V", PlainObj(<<ReactiveView(n), PlainAbsent>>)),
                  SelectOp("set", NoResult))

\* n.set(null)
NodeSetNullAct(n) ==
  /\ n \in CombineLeaves
  /\ SelectCommit(NodeValueSet(SelectHeap, n, PlainPrim(Null)), SelectOp("set", NoResult))

\* D.free()
DerivativeFreeAct ==
  /\ derivation.kind # "none"
  /\ SelectCommitWithin(DerivativeFree(SelectHeap), SelectOp("free", NoResult), MaxFreeOps)

\* the same nodes with a node among the values of V, null among the values of
\* that node, and free() among the calls on D
NestedNext ==
  \/ SelectNext
  \/ NodeSetNestedAct("X")
  \/ NodeSetNullAct("X")
  \/ DerivativeFreeAct

SpecNested == Init /\ [][NestedNext]_vars

(* ---------------- src/timing.ts Debounce ---------------- *)

\* the action under Debounce: test('Debounce') doubles its parameter
Double(input) == input * 2

\* new Deferred(): a promise nobody has settled
NewPromise == [state |-> "pending", v |-> Undefined]

\* resolve(v) or reject() of a Deferred: the first settlement stays
Settle(p, state, v) == IF p.state = "pending" THEN [state |-> state, v |-> v] ELSE p

\* new Delay(ms): a timer that is armed, its handle, and its unsettled promise
NewDelay == [handle |-> TRUE, timer |-> "armed", state |-> "pending"]

\* a cancel() that leaves the timer of the delay running
MutDelayCancel(d) == d

\* Delay.cancel: abort() and reject, if the handle is set
DelayCancel(d) ==
  IF d.handle
  THEN [handle |-> FALSE, timer |-> IF d.timer = "armed" THEN "cleared" ELSE d.timer,
        state |-> IF d.state = "pending" THEN "rejected" ELSE d.state]
  ELSE d

\* Delay.flush: abort() and resolve, if the handle is set
DelayFlush(d) ==
  IF d.handle
  THEN [handle |-> FALSE, timer |-> IF d.timer = "armed" THEN "cleared" ELSE d.timer,
        state |-> IF d.state = "pending" THEN "resolved" ELSE d.state]
  ELSE d

\* the fields of the Debounce, the Delays and Deferreds it made, the reactions of
\* the promises that are due, and the log of run() and action calls
Debounced ==
  [pending |-> pending, deferred |-> deferred, delay |-> delay, parameters |-> parameters,
   promises |-> promises, delays |-> delays, microtasks |-> microtasks, events |-> events]

\* Debounce.run
run(b, p) ==
  LET b1 == [b EXCEPT !.parameters = p]
      b2 == IF ~b1.pending
            THEN [b1 EXCEPT !.promises = Append(@, NewPromise),
                            !.deferred = Len(b1.promises) + 1,
                            !.pending = TRUE]
            ELSE b1
      b3 == IF b2.delay # 0 THEN [b2 EXCEPT !.delays[b2.delay] = DelayCancel(@)] ELSE b2
      b4 == [b3 EXCEPT !.delays = Append(@, NewDelay), !.delay = Len(b3.delays) + 1]
  IN [b4 EXCEPT !.events = Append(@, [kind |-> "run", p |-> p, promise |-> b4.deferred])]

\* Debounce.flush: the reaction () => this.doRun() of a delay that flush() resolves
\* becomes due
flush(b) ==
  IF b.delay = 0 THEN b
  ELSE LET d == DelayFlush(b.delays[b.delay])
       IN [b EXCEPT !.delays[b.delay] = d,
                    !.microtasks = IF d.state = "resolved" /\ b.delays[b.delay].state = "pending"
                                   THEN Append(@, b.delay) ELSE @]

\* Debounce.cancel
cancel(b) ==
  IF ~b.pending THEN b
  ELSE LET b1 == IF b.delay # 0 THEN [b EXCEPT !.delays[b.delay] = DelayCancel(@)] ELSE b
           b2 == IF b1.deferred # 0
                 THEN [b1 EXCEPT !.promises[b1.deferred] = Settle(@, "rejected", Undefined)]
                 ELSE b1
       IN [b2 EXCEPT !.pending = FALSE,
                     !.events = Append(@, [kind |-> "cancel", p |-> 0, promise |-> b.deferred])]

\* Debounce.doRun with an action that does not throw
doRun(b) ==
  IF ~b.pending THEN b
  ELSE LET result == Double(b.parameters)
           b1 == [b EXCEPT !.events = Append(@, [kind |-> "action", p |-> b.parameters,
                                                 promise |-> b.deferred])]
           b2 == IF b1.deferred # 0
                 THEN [b1 EXCEPT !.promises[b1.deferred] = Settle(@, "resolved", result)]
                 ELSE b1
       IN [b2 EXCEPT !.pending = FALSE]

DebounceCommit(b, name) ==
  /\ pending' = b.pending
  /\ deferred' = b.deferred
  /\ delay' = b.delay
  /\ parameters' = b.parameters
  /\ promises' = b.promises
  /\ delays' = b.delays
  /\ microtasks' = b.microtasks
  /\ events' = b.events
  /\ bop' = name
  /\ UNCHANGED <<graphVars, cacheVars, patchVars, spliceVars, selectVars, intervalVars, arrayVars, equalVars, steps>>

\* debounced.run(p)
RunAct(p) ==
  /\ Len(delays) < MaxRuns
  /\ DebounceCommit(run(Debounced, p), "run")

\* debounced.flush()
FlushAct ==
  /\ delay # 0
  /\ DebounceCommit(flush(Debounced), "flush")

\* debounced.cancel()
DebounceCancelAct ==
  /\ delay # 0
  /\ DebounceCommit(cancel(Debounced), "cancel")

\* the timer of a delay elapses: setTimeout calls this.resolve, and the reaction
\* () => this.doRun() runs before any other task
TimeoutAct(i) ==
  /\ i \in 1 .. Len(delays)
  /\ delays[i].timer = "armed"
  /\ microtasks = <<>>
  /\ DebounceCommit(doRun([Debounced EXCEPT !.delays[i].timer = "fired",
                                            !.delays[i].state = "resolved"]),
                    "timeout")

\* the reaction () => this.doRun() of a flushed delay runs, once the code that
\* called flush() has returned
ReactionAct ==
  /\ microtasks # <<>>
  /\ DebounceCommit(doRun([Debounced EXCEPT !.microtasks = Tail(@)]), "reaction")

DebounceNext ==
  \/ \E p \in 1 .. MaxParam : RunAct(p)
  \/ FlushAct
  \/ DebounceCancelAct
  \/ \E i \in 1 .. MaxRuns : TimeoutAct(i)
  \/ ReactionAct

SpecDebounce == Init /\ [][DebounceNext]_vars

(* ---------------- src/timing.ts Interval ---------------- *)

\* --this.limit: infinity stays what it is
Decrement(l) == IF l = Infinity THEN l ELSE l - 1

\* the fields of the Interval, the calls of its action, and the callbacks that
\* await the promise of an asynchronous action
Ticking ==
  [handle |-> intervalHandle, limit |-> intervalLimit,
   invocations |-> invocations, awaiting |-> awaiting]

\* Interval.cancel: clearInterval(this.handle)
IntervalCancel(t) == [t EXCEPT !.handle = "cleared"]

\* what follows await action(): if (--this.limit <= 0) this.cancel()
AfterAction(t) ==
  LET t1 == [t EXCEPT !.limit = Decrement(@)]
  IN IF t1.limit <= 0 THEN IntervalCancel(t1) ELSE t1

\* the call of the action by the callback of setInterval; the action of the
\* program cancels the interval during its call number cancelAt
CallAction(t, cancelAt) ==
  LET t1 == [t EXCEPT !.invocations = @ + 1]
  IN IF t1.invocations = cancelAt THEN IntervalCancel(t1) ELSE t1

IntervalCommit(t) ==
  /\ intervalHandle' = t.handle
  /\ intervalLimit' = t.limit
  /\ invocations' = t.invocations
  /\ awaiting' = t.awaiting
  /\ UNCHANGED <<graphVars, cacheVars, patchVars, spliceVars, selectVars, debounceVars, arrayVars, equalVars, steps>>

\* new Interval(ms, action), followed by withLimit(n) unless n is 0
NewIntervalAct(n, mode, cancelAt) ==
  /\ intervalHandle = "none"
  /\ program' = [limit |-> n, mode |-> mode, cancelAt |-> cancelAt]
  /\ IntervalCommit([Ticking EXCEPT !.handle = "active",
                                    !.limit = IF n = 0 THEN Infinity ELSE n])

\* the period elapses: the callback calls the action; the promise of a synchronous
\* action is settled, and the callback continues before any other task
TickAct ==
  /\ intervalHandle = "active"
  /\ invocations < MaxTicks
  /\ UNCHANGED program
  /\ LET t == CallAction(Ticking, program.cancelAt)
     IN IF program.mode = "sync" THEN IntervalCommit(AfterAction(t))
        ELSE IntervalCommit([t EXCEPT !.awaiting = @ + 1])

\* the promise of an asynchronous action settles: a callback that awaits continues
SettleAct ==
  /\ awaiting > 0
  /\ UNCHANGED program
  /\ IntervalCommit(AfterAction([Ticking EXCEPT !.awaiting = @ - 1]))

IntervalNext ==
  \/ \E n \in 0 .. MaxLimit, mode \in {"sync", "async"}, cancelAt \in 0 .. MaxLimit :
       NewIntervalAct(n, mode, cancelAt)
  \/ TickAct
  \/ SettleAct

SpecInterval == Init /\ [][IntervalNext]_vars

(* ---------------- ReactiveArray: the methods on plain elements -------- *)

\* the elements of the arrays of numbers
Numbers == 1 .. MaxNumber

\* the array literals given to Reactive.of
Literals == UNION {[1 .. n -> Numbers] : n \in 0 .. MaxSize}

\* the arrays passed to splice() as insertValues
Inserted == UNION {[1 .. n -> Numbers] : n \in 0 .. MaxCount}

\* an argument that the call leaves out
Omitted == 0 - Infinity

\* a parameter with a default value
Default(x, d) == IF x = Omitted THEN d ELSE x

\* the start and end arguments of fill(), and the indices given to setAt()
Positions == (0 - MaxSize) .. (MaxSize + 1)

\* the array node during a method
Elems == [elements |-> arrayValue, dirty |-> arrayDirty, updates |-> 0]

\* ReactiveContainer.commit
ElementsCommit(r) ==
  IF r.dirty THEN [r EXCEPT !.updates = @ + 1, !.dirty = FALSE] ELSE r

\* ReactiveContainer.patchComponent and setComponent on an element that is no
\* ReactiveValue: this.value[key] = this.wrapComponent(value); this.dirty = true
ElementPatch(r, i, x) ==
  [r EXCEPT !.elements = Assign(@, i + 1, x), !.dirty = TRUE]

\* ReactiveArray.doSplice; wrapElement is passThrough
ElementsDoSplice(r, index, removeCount, insertValues) ==
  IF removeCount > 0 \/ Len(insertValues) > 0
  THEN [r EXCEPT !.elements = NativeSplice(@, index, removeCount, insertValues),
                 !.dirty = TRUE]
  ELSE r

\* toReplace.forEach(v => this.patchComponent(index++, v))
RECURSIVE ElementsReplace(_, _, _, _)
ElementsReplace(r, index, toReplace, i) ==
  IF i > Len(toReplace) THEN r
  ELSE ElementsReplace(ElementPatch(r, index, toReplace[i]), index + 1, toReplace, i + 1)

\* ReactiveArray.splice
ElementsSplice(r, index0, removeCount0, insertValues) ==
  LET limit == Len(r.elements)
      index == normalizeRangeStart(limit, index0)
      removeCount == normalizeRangeLength(limit, removeCount0, index)
      toReplace == SubSeq(insertValues, 1, Min(Max(removeCount, 0), Len(insertValues)))
      toInsert == SubSeq(insertValues, Len(toReplace) + 1, Len(insertValues))
      replaced == ElementsReplace(r, index, toReplace, 1)
  IN ElementsCommit(ElementsDoSplice(replaced, index + Len(toReplace),
                                     removeCount - Len(toReplace), toInsert))

\* the array insertValues after splice(): toInsert is insertValues itself, and
\* toInsert.splice(0, removeCount) takes the elements to replace out of it
SplicePassed(r, index0, removeCount0, insertValues) ==
  LET limit == Len(r.elements)
      index == normalizeRangeStart(limit, index0)
      removeCount == normalizeRangeLength(limit, removeCount0, index)
  IN SubSeq(insertValues, Min(Max(removeCount, 0), Len(insertValues)) + 1, Len(insertValues))

\* for (let i = start; i < end; i++) this.setComponent(i, value)
RECURSIVE FillFrom(_, _, _, _)
FillFrom(r, x, i, end) ==
  IF i >= end THEN r ELSE FillFrom(ElementPatch(r, i, x), x, i + 1, end)

\* ReactiveArray.fill
fill(r, x, start0, end0) ==
  LET limit == Len(r.elements)
      start == normalizeRangeStart(limit, Default(start0, 0))
      end == normalizeRangeEnd(limit, Default(end0, limit), start)
  IN [node |-> ElementsCommit(FillFrom(r, x, start, end)), result |-> <<>>]

\* this.value.findIndex(v => v === x)
RECURSIVE FindIndex(_, _, _)
FindIndex(a, x, i) ==
  IF i >= Len(a) THEN 0 - 1 ELSE IF a[i + 1] = x THEN i ELSE FindIndex(a, x, i + 1)

\* ReactiveArray.swap: swapBy(replacement, equals(value))
swapBy(r, x, replacement) ==
  LET i == FindIndex(r.elements, x, 0)
  IN IF i >= 0
     THEN [node |-> ElementsCommit(ElementPatch(r, i, replacement)),
           result |-> <<r.elements[i + 1]>>]
     ELSE [node |-> r, result |-> <<>>]

\* the callback of filter in swapAllBy, on each element of the copy in turn
RECURSIVE SwapEach(_, _, _, _, _, _)
SwapEach(r, copy, i, x, replacement, out) ==
  IF i >= Len(copy) THEN [node |-> r, result |-> out]
  ELSE IF copy[i + 1] = x
       THEN SwapEach(ElementPatch(r, i, replacement), copy, i + 1, x, replacement,
                     Append(out, copy[i + 1]))
       ELSE SwapEach(r, copy, i + 1, x, replacement, out)

\* ReactiveArray.swapAll: swapAllBy(replacement, equals(value))
swapAllBy(r, x, replacement) == SwapEach(r, r.elements, 0, x, replacement, <<>>)

\* ReactiveArray.remove: removeBy(equals(value))
removeBy(r, x) ==
  LET i == FindIndex(r.elements, x, 0)
  IN IF i >= 0
     THEN [node |-> ElementsSplice(r, i, 1, <<>>), result |-> <<r.elements[i + 1]>>]
     ELSE [node |-> r, result |-> <<>>]

\* the callback of filter in removeAllBy, on each element of the copy in turn
RECURSIVE RemoveEach(_, _, _, _, _)
RemoveEach(r, copy, i, x, out) ==
  IF i >= Len(copy) THEN [node |-> r, result |-> out]
  ELSE IF copy[i + 1] = x
       THEN RemoveEach(ElementsSplice(r, i, 1, <<>>), copy, i + 1, x, Append(out, copy[i + 1]))
       ELSE RemoveEach(r, copy, i + 1, x, out)

\* ReactiveArray.removeAll: removeAllBy(equals(value))
removeAllBy(r, x) == RemoveEach(r, r.elements, 0, x, <<>>)

\* ReactiveArray.addLast
addLast(r, x) == ElementsSplice(r, Len(r.elements), 0, <<x>>)

\* ReactiveArray.toggle: toggleBy(value, equals(value))
toggleBy(r, x) ==
  LET removed == removeBy(r, x)
  IN IF removed.result = <<>> THEN [node |-> addLast(removed.node, x), result |-> <<>>]
     ELSE removed

\* ReactiveArray.kick, which pop() and shift() call: removeAt(i) is splice(i, 1)
kick(r, i) ==
  [node |-> ElementsSplice(r, i, 1, <<>>),
   result |-> IF i >= 0 /\ i < Len(r.elements) THEN <<r.elements[i + 1]>> ELSE <<>>]

\* ReactiveArray.addFirst
addFirst(r, x) == [node |-> ElementsSplice(r, 0, 0, <<x>>), result |-> <<>>]

\* ReactiveArray.setAt
setAt(r, index, x) ==
  [node |-> ElementsCommit(ElementPatch(r, mirrorIndex(Len(r.elements), index), x)),
   result |-> <<>>]

\* the array a method leaves behind
ArrayCommit(name, args, done) ==
  /\ arrayOp.name # "init"
  /\ arrayOps < MaxArrayOps
  /\ Len(done.node.elements) <= MaxSize + 1
  /\ arrayValue' = done.node.elements
  /\ arrayDirty' = done.node.dirty
  /\ arrayOp' = [name |-> name, args |-> args, before |-> arrayValue,
                 result |-> done.result, updates |-> done.node.updates,
                 passed |-> IF "passed" \in DOMAIN done THEN done.passed ELSE <<>>]
  /\ arrayOps' = arrayOps + 1
  /\ UNCHANGED <<graphVars, cacheVars, patchVars, spliceVars, selectVars, debounceVars,
                 intervalVars, equalVars, steps>>

\* const reactive = Reactive.of(literal)
OfArrayAct(literal) ==
  /\ arrayOp.name = "init"
  /\ arrayValue' = literal
  /\ arrayOp' = [arrayOp EXCEPT !.name = "of"]
  /\ UNCHANGED <<graphVars, cacheVars, patchVars, spliceVars, selectVars, debounceVars,
                 intervalVars, equalVars, steps, arrayDirty, arrayOps>>

\* reactive.fill(x, start, end), start and end being optional
FillAct(x, start, end) ==
  /\ start = Omitted => end = Omitted
  /\ ArrayCommit("fill", <<x, start, end>>, fill(Elems, x, start, end))

\* reactive.swap(x, replacement)
SwapAct(x, replacement) ==
  /\ x \in Numbers
  /\ ArrayCommit("swap", <<x, replacement>>, swapBy(Elems, x, replacement))

\* reactive.swapAll(x, replacement)
SwapAllAct(x, replacement) ==
  /\ x \in Numbers
  /\ ArrayCommit("swapAll", <<x, replacement>>, swapAllBy(Elems, x, replacement))

\* reactive.remove(x)
RemoveElementAct(x) ==
  /\ x \in Numbers
  /\ ArrayCommit("remove", <<x>>, removeBy(Elems, x))

\* reactive.removeAll(x)
RemoveAllAct(x) ==
  /\ x \in Numbers
  /\ ArrayCommit("removeAll", <<x>>, removeAllBy(Elems, x))

\* reactive.toggle(x)
ToggleAct(x) ==
  /\ x \in Numbers
  /\ ArrayCommit("toggle", <<x>>, toggleBy(Elems, x))

\* reactive.pop()
PopAct ==
  /\ arrayOps < MaxArrayOps
  /\ ArrayCommit("pop", <<>>, kick(Elems, Len(arrayValue) - 1))

\* reactive.shift()
ShiftAct ==
  /\ arrayOp.name # "init"
  /\ ArrayCommit("shift", <<>>, kick(Elems, 0))

\* reactive.removeAt(index, count): this.splice(index, count)
ArrayRemoveAtAct(index, count) ==
  /\ index \in Positions
  /\ ArrayCommit("removeAt", <<index, count>>,
                 [node |-> ElementsSplice(Elems, index, count, <<>>), result |-> <<>>])

\* reactive.splice(index, count, insertValues)
ArraySpliceAct(index, count, insertValues) ==
  /\ index \in Positions
  /\ ArrayCommit("splice", <<index, count, insertValues>>,
                 [node |-> ElementsSplice(Elems, index, count, insertValues), result |-> <<>>,
                  passed |-> SplicePassed(Elems, index, count, insertValues)])

\* reactive.addFirst(x)
AddFirstAct(x) ==
  /\ x \in Numbers
  /\ ArrayCommit("addFirst", <<x>>, addFirst(Elems, x))

\* reactive.setAt(index, x)
SetAtAct(index, x) ==
  /\ x \in Numbers
  /\ ArrayCommit("setAt", <<index, x>>, setAt(Elems, index, x))

ArrayNext ==
  \/ \E literal \in Literals : OfArrayAct(literal)
  \/ \E x \in Numbers, start \in Positions \cup {Omitted}, end \in Positions \cup {Omitted} :
       FillAct(x, start, end)
  \/ \E x \in Numbers, replacement \in Numbers : SwapAct(x, replacement)
  \/ \E x \in Numbers, replacement \in Numbers : SwapAllAct(x, replacement)
  \/ \E x \in Numbers : RemoveElementAct(x)
  \/ \E x \in Numbers : RemoveAllAct(x)
  \/ \E x \in Numbers : ToggleAct(x)
  \/ PopAct
  \/ ShiftAct
  \/ \E index \in Positions, count \in 0 .. MaxCount, insertValues \in Inserted :
       ArraySpliceAct(index, count, insertValues)
  \/ \E index \in Positions, count \in 0 .. MaxCount : ArrayRemoveAtAct(index, count)
  \/ \E x \in Numbers : AddFirstAct(x)
  \/ \E index \in Positions, x \in Numbers : SetAtAct(index, x)

SpecArray == Init /\ [][ArrayNext]_vars

(* ---------------- src/general.ts areEqual on plain values ---------------- *)

\* the primitives given to areEqual
EqualPrims == {PlainPrim(0), PlainPrim(1), PlainPrim(Undefined)}

\* the elements and properties of the arrays and objects given to areEqual:
\* a primitive, [] or {}
EqualItems == EqualPrims \cup {PlainArr(<<>>), PlainObj(<<PlainAbsent, PlainAbsent>>)}

\* the values given to areEqual: a primitive, an array of at most MaxLen items,
\* or an object with any of the keys a and b
EqualValues ==
  EqualPrims
  \cup {PlainArr(items) : items \in UNION {[1 .. n -> EqualItems] : n \in 0 .. MaxLen}}
  \cup {PlainObj(<<x, y>>) : x \in EqualItems \cup {PlainAbsent}, y \in EqualItems \cup {PlainAbsent}}

\* areEqual(a, b) and areEqual(b, a), once
AreEqualAct(a, b) ==
  /\ ~equality.compared
  /\ equality' = [compared |-> TRUE, a |-> a, b |-> b,
                  result |-> areEqual(a, b), swapped |-> areEqual(b, a)]
  /\ UNCHANGED <<graphVars, cacheVars, patchVars, spliceVars, selectVars, debounceVars,
                 intervalVars, arrayVars, steps>>

EqualNext == \E a \in EqualValues, b \in EqualValues : AreEqualAct(a, b)

SpecEqual == Init /\ [][EqualNext]_vars

(* ------------------------------ claims -------------------------------- *)

\* the values consumer k's callback received during the operation, in order
Received(log, k) ==
  LET mine == SelectSeq(log, LAMBDA c : c.consumer = k)
  IN [i \in 1 .. Len(mine) |-> mine[i].v]

\* C1: a consumer of a leaf is called once, with the current value, by the
\* consume() that registers it; afterwards, as long as it is not cancelled, a
\* set() calls it exactly once with the new value when the argument is not
\* strictly equal to the value held, and no other operation calls it.
LeafConsumerDelivery ==
  [][\A k \in Consumers :
       /\ (base[k] = None /\ base'[k] \in Leaves /\ ~cancelCalled'[k])
            => Received(calls', k) = <<value'[base'[k]]>>
       /\ (base[k] \in Leaves /\ ~cancelCalled'[k])
            => Received(calls', k) =
                 IF op'.name = "set" /\ op'.target = base[k]
                    /\ ~StrictEq(op'.arg, value[base[k]])
                 THEN <<op'.arg>> ELSE <<>>]_vars

\* a changing set() has reached a live consumer of the leaf
LeafConsumerDeliveryWitness ==
  /\ op.name = "set"
  /\ ~StrictEq(op.arg, op.old)
  /\ \E k \in Consumers :
       /\ base[k] = op.target
       /\ ~cancelCalled[k]
       /\ Received(calls, k) = <<op.arg>>

\* C2: set(v) with v strictly equal to the value held changes nothing: no
\* update() call, no callback, no derivative invalidated, no field touched.
UnchangedSetIsSilent ==
  [][(op'.name = "set" /\ StrictEq(op'.arg, value[op'.target]))
       => /\ UNCHANGED <<value, subscribers, valid, memo, subscriptions>>
          /\ passes' = <<>>
          /\ updates' = <<>>
          /\ calls' = <<>>
          /\ evals' = <<>>]_vars

\* set(v) with the value held, on a leaf that a valid derivative and a consumer depend on
UnchangedSetIsSilentWitness ==
  /\ op.name = "set"
  /\ StrictEq(op.arg, op.old)
  /\ \E d \in Derivs : valid[d] /\ Has(subscribers[op.target], d)
  /\ \E k \in Consumers : ~cancelCalled[k] /\ base[k] # None

\* C4: between two invalidations (update() or free()) of a derivative its
\* derivation function runs at most once; every further read is served from the memo.
DerivationRunsOncePerValidity == \A d \in Derivs : evalsSince[d] <= 1

\* a read of a valid derivative that did not call the derivation function
DerivationRunsOncePerValidityWitness ==
  /\ op.name = "unwrap"
  /\ evals = <<>>
  /\ valid[op.target]
  /\ evalsSince[op.target] = 1

\* the derivation functions as pure functions of the leaf values
RECURSIVE Pure(_, _)
RECURSIVE PureSum(_, _, _)
PureSum(vals, reads, i) ==
  IF i > Len(reads) THEN 0
  ELSE LET rest == PureSum(vals, reads, i + 1)
       IN Plus(Pure(vals, reads[i]), rest)

Pure(vals, n) ==
  IF n \in Leaves THEN vals[n]
  ELSE LET f == Derivation(n)
       IN IF f.kind = "cond"
          THEN IF Truthy(Pure(vals, f.reads[1]))
               THEN Pure(vals, f.reads[2]) ELSE Pure(vals, f.reads[3])
          ELSE PureSum(vals, f.reads, 1)

\* the number of paths from publisher p to subscriber t along the subscriber sets
RECURSIVE Paths(_, _, _)
RECURSIVE PathsVia(_, _, _)
PathsVia(subs, seq, t) ==
  IF seq = <<>> THEN 0
  ELSE LET x == Head(seq)
           n == IF x = t THEN 1 ELSE IF x \in Derivs THEN Paths(subs, x, t) ELSE 0
       IN n + PathsVia(subs, Tail(seq), t)

Paths(subs, p, t) == PathsVia(subs, subs[p], t)

\* C3: a changing set() on a leaf a consumed derivative depends on calls
\* the consumer exactly once, with the recomputed value, whatever the number of
\* paths from the leaf to the consumer.
OneCallPerSetAnyGraph ==
  [][\A k \in Consumers :
       (/\ base[k] \in Derivs
        /\ ~cancelCalled'[k]
        /\ op'.name = "set"
        /\ ~StrictEq(op'.arg, value[op'.target])
        /\ Paths(subscribers, op'.target, k) >= 1)
       => Received(calls', k) = <<Pure(value', base[k])>>]_vars

\* a changing set() on c, from which two paths lead to the consumer of d2, has
\* called that consumer twice
TwoPathsTwoCalls ==
  /\ op.name = "set"
  /\ op.target = "c"
  /\ \E k \in Consumers :
       /\ base[k] = "d2"
       /\ ~cancelCalled[k]
       /\ Paths(subscribers, "c", k) = 2
       /\ Len(Received(calls, k)) = 2

\* The single-path case of C3: a changing set() on a leaf from which exactly one
\* path of subscriptions leads to the consumer of a derivative calls that consumer
\* exactly once, with the derivative's recomputed value.
OneCallPerSetOnePath ==
  [][\A k \in Consumers :
       (/\ base[k] \in Derivs
        /\ ~cancelCalled'[k]
        /\ op'.name = "set"
        /\ ~StrictEq(op'.arg, value[op'.target])
        /\ Paths(subscribers, op'.target, k) = 1)
       => Received(calls', k) = <<Pure(value', base[k])>>]_vars

\* a changing set() two derivatives upstream of a consumer has called it once
OneCallPerSetOnePathWitness ==
  /\ op.name = "set"
  /\ op.target \in {"a", "b"}
  /\ ~StrictEq(op.arg, op.old)
  /\ \E k \in Consumers :
       /\ base[k] = "d2"
       /\ ~cancelCalled[k]
       /\ Paths(subscribers, op.target, k) = 1
       /\ Received(calls, k) = <<Pure(value, "d2")>>
       /\ evals = <<"d2", "d1">>

\* the leaf the conditional derivation d reads for the condition held now
BranchRead(vals, d) ==
  LET f == Derivation(d)
  IN IF Truthy(vals[f.reads[1]]) THEN f.reads[2] ELSE f.reads[3]

BranchOther(vals, d) ==
  LET f == Derivation(d)
  IN IF Truthy(vals[f.reads[1]]) THEN f.reads[3] ELSE f.reads[2]

\* C5: once the conditional derivation d1 has been re-evaluated for the current
\* condition, a changing set() on the branch leaf it no longer reads neither
\* invalidates it nor notifies its subscribers, and one on the branch leaf it
\* reads does both.
PrunedBranchIsSilent ==
  [][(/\ valid["d1"]
      /\ op'.name = "set"
      /\ ~StrictEq(op'.arg, value[op'.target]))
     => /\ op'.target = BranchOther(value, "d1")
             => /\ valid'["d1"]
                /\ \A i \in 1 .. Len(updates') : updates'[i].sub # "d1"
                /\ \A i \in 1 .. Len(passes') : passes'[i].pub # "d1"
        /\ op'.target = BranchRead(value, "d1")
             => /\ \E i \in 1 .. Len(updates') : updates'[i].sub = "d1"
                /\ \E i \in 1 .. Len(passes') :
                     /\ passes'[i].pub = "d1"
                     /\ passes'[i].initial = subscribers["d1"]]_vars

\* a changing set() on the leaf that a re-evaluation of d1 has dropped, d1 being
\* valid and subscribed to
PrunedBranchIsSilentWitness ==
  /\ op.name = "set"
  /\ ~StrictEq(op.arg, op.old)
  /\ op.target = BranchOther(value, "d1")
  /\ op.target \in dropped["d1"]
  /\ valid["d1"]
  /\ subscribers["d1"] # <<>>
  /\ \A i \in 1 .. Len(updates) : updates[i].sub # "d1"

\* d holds nothing and nobody publishes to it
Released(d) ==
  /\ ~valid[d]
  /\ memo[d] = Undefined
  /\ subscriptions[d] = <<>>
  /\ \A p \in Publishers : ~Has(subscribers[p], d)

\* d and the derivatives upstream of it that have no subscriber but the released ones
RECURSIVE FreedWith(_, _, _)
FreedWith(subsOf, subsTo, d) ==
  {d} \cup UNION {FreedWith(subsOf, subsTo, u) :
                    u \in {u \in Range(subsTo[d]) \cap Derivs : subsOf[u] = <<d>>}}

\* C6: when a cancel removes the last subscriber of a derivative, the derivative
\* and every derivative upstream that only it subscribed to become invalid, lose
\* their memo and their subscriptions, and are in no publisher's subscriber set.
LastSubscriberFrees ==
  [][\A k \in Consumers :
       (/\ op'.name = "cancel"
        /\ op'.target = k
        /\ base[k] \in Derivs
        /\ subscribers[base[k]] = <<k>>)
       => \A u \in FreedWith(subscribers, subscriptions, base[k]) : Released(u)']_vars

\* a cancel has freed d2 and, through it, d1, each subscribed to two publishers
LastSubscriberFreesWitness ==
  /\ op.name = "cancel"
  /\ frees = <<[d |-> "d2", held |-> 2], [d |-> "d1", held |-> 2]>>
  /\ Released("d1")
  /\ Released("d2")

\* C7: a callback is never invoked once its cancel function has been called.
CancelledConsumerNeverCalled == \A i \in 1 .. Len(calls) : ~calls[i].cancelled

\* a set() has invoked the callback of a consumer that a callback earlier in the
\* same notification pass had cancelled
CancelledConsumerCalled ==
  /\ op.name = "set"
  /\ \E i \in 1 .. Len(calls) :
       /\ calls[i].cancelled
       /\ \E j \in 1 .. i - 1 :
            /\ script[calls[j].consumer] =
                 [kind |-> "cancel", target |-> calls[i].consumer, node |-> None]
            /\ base[calls[j].consumer] = base[calls[i].consumer]

\* the update() calls of pass p, in order
UpdatedIn(log, p) ==
  LET mine == SelectSeq(log, LAMBDA u : u.pass = p)
  IN [i \in 1 .. Len(mine) |-> mine[i].sub]

\* C8: every updateSubscribers() call updates exactly the subscribers that were in
\* the set when it started, once each, whatever joins or leaves the set meanwhile.
PassNotifiesSnapshot ==
  \A p \in 1 .. Len(passes) : UpdatedIn(updates, p) = passes[p].initial

\* a pass has updated a subscriber that left the set during the pass, after it left
PassNotifiesSnapshotWitness ==
  \E p \in 1 .. Len(passes) :
    \E i \in 1 .. Len(passes[p].initial) :
      LET sub == passes[p].initial[i]
      IN /\ sub \in Consumers
         /\ ~Has(subscribers[passes[p].pub], sub)
         /\ Has(UpdatedIn(updates, p), sub)
         /\ \E j \in 1 .. Len(calls) : calls[j].consumer = sub /\ calls[j].cancelled

\* d is as free() leaves it
IsFreed(d) == ~valid[d] /\ memo[d] = Undefined /\ subscriptions[d] = <<>>

\* C9: free() on a freed derivative and a second call of a cancel
\* function leave every node's state unchanged.
SecondFreeChangesNothing ==
  [][(\/ op'.name = "free" /\ IsFreed(op'.target)
      \/ op'.name = "cancel" /\ cancelCalled[op'.target])
     => UNCHANGED <<value, subscribers, valid, memo, subscriptions>>]_vars

\* the second call of a cancel function has freed a derivative that held
\* upstream subscriptions
SecondCancelFrees ==
  /\ op.name = "cancel"
  /\ op.old = 1
  /\ frees # <<>>
  /\ frees[1].held > 0

\* C10: a call of Reactive.of(r), or of Reactive.nest(r), returns the node
\* the same call returned before when nothing was mutated in between.
SameRawSameNode ==
  (cop.name \in {"of", "nest"} /\ cop.expected # Undefined) => cop.node = cop.expected

\* the second Reactive.of(r) on an unchanged array that holds NaN has returned a
\* new node
NaNArrayGetsNewNode ==
  /\ cop.name = "of"
  /\ cop.expected # Undefined
  /\ cop.node # cop.expected
  /\ Has(arrays[cop.raw], Prim(NaN))

\* The NaN-free case of C10: the second call on an unchanged array without NaN
\* returns the node of the first.
SameRawSameNodeWithoutNaN ==
  (/\ cop.name \in {"of", "nest"}
   /\ cop.expected # Undefined
   /\ ~Has(arrays[cop.raw], Prim(NaN)))
  => cop.node = cop.expected

\* the second Reactive.nest(r) on an unchanged array of MaxLen numbers has returned
\* the node of the first
SameRawSameNodeWithoutNaNWitness ==
  /\ cop.name = "nest"
  /\ cop.expected # Undefined
  /\ cop.node = cop.expected
  /\ Len(arrays[cop.raw]) = MaxLen

\* the cache Reactive.of (DIRECT_CACHE) or Reactive.nest (NESTED_CACHE) looks raw up in
CacheOf(name) == IF name = "of" THEN "DIRECT_CACHE" ELSE "NESTED_CACHE"

\* the plain content of the node and of the raw array of the last of()/nest()
ContentOfNode == unnest(CacheHeap, Node(cop.node))
ContentOfRaw == unnest(CacheHeap, Ref(cop.raw))

Patched == pop.node
PatchSource == pop.source

\* a and b are the same value to a reader: the same primitive, or the same shape
\* with the same components
RECURSIVE SameValue(_, _)
SameValue(a, b) ==
  /\ a.t = b.t
  /\ IF a.t = "prim" THEN StrictEq(a.v, b.v)
     ELSE /\ Len(a.items) = Len(b.items)
          /\ \A i \in 1 .. Len(a.items) : SameValue(a.items[i], b.items[i])

\* the keys or indices of the source of the last patch() that hold a value
SourceKeys == {k \in 1 .. Len(PatchSource.items) : PatchSource.items[k].t # "absent"}

\* Lemma (first half of C12): patch(source) leaves every child node whose key or
\* index is in source at its place.
PatchedChildIsKept ==
  [][\A n \in 1 .. Len(nodes), k \in SourceKeys' :
       (pop'.name = "patch" /\ n = Patched' /\ Component(CacheHeap, n, k).t = "node")
       => Component(CacheHeap, n, k)' = Component(CacheHeap, n, k)]_vars

PatchedChildIsKeptWitness ==
  /\ pop.name = "patch"
  /\ \E k \in SourceKeys :
       /\ Component(CacheHeap, Patched, k).t = "node"
       /\ Has(notified, Component(CacheHeap, Patched, k).v)

\* C12: a patch(source) of a container keeps the child node at every key or index
\* that source has, and a child node whose value is the same after the patch as
\* before it has not notified its subscribers.
PatchKeepsChildrenAndSilence ==
  [][\A n \in 1 .. Len(nodes), c \in 1 .. Len(nodes), k \in 1 .. MaxLen :
       (pop'.name = "patch" /\ n = Patched' /\ Component(CacheHeap, n, k) = Node(c))
       => /\ k \in SourceKeys' => Component(CacheHeap, n, k)' = Node(c)
          /\ SameValue(unnest(CacheHeap, Node(c)), unnest(CacheHeap, Node(c))')
             => ~Has(notified', c)]_vars

StartIndex(n, i) ==
  LET from == IF i < 0 THEN i + n ELSE i
  IN IF from < 0 THEN 0 ELSE IF from > n THEN n ELSE from

\* C14: splice(i, c, values) and removeAt(i, c) on an array of length n act at
\* i + n for a negative i and at i otherwise, clamped into [0, n]: the elements
\* before that index stay, values follow, then the elements that are not removed.
StartIndexIsNormalized ==
  [][sop'.name \in {"splice", "removeAt"} =>
       LET n == Len(list)
           s == StartIndex(n, sop'.index)
           removed == IF sop'.count < n - s THEN sop'.count ELSE n - s
       IN /\ normalizeRangeStart(n, sop'.index) = s
          /\ list' = SubSeq(list, 1, s) \o sop'.insert \o SubSeq(list, s + removed + 1, n)]_vars

\* removeAt(-2, 1) on five elements removes the one at index 3
StartIndexIsNormalizedWitness ==
  /\ sop.name = "removeAt"
  /\ sop.index = 0 - 2
  /\ sop.count = 1
  /\ Len(sop.before) = 5
  /\ list = <<sop.before[1], sop.before[2], sop.before[3], sop.before[5]>>

\* splice(100, 0, [x]) on five elements appends x
SpliceFarAppends ==
  /\ sop.name = "splice"
  /\ sop.index = Far
  /\ sop.count = 0
  /\ Len(sop.insert) = 1
  /\ Len(sop.before) = 5
  /\ list = Append(sop.before, sop.insert[1])

\* splice(-100, 1) on five elements removes the first
SpliceFarBackRemovesFirst ==
  /\ sop.name = "splice"
  /\ sop.index = 0 - Far
  /\ sop.count = 1
  /\ sop.insert = <<>>
  /\ Len(sop.before) = 5
  /\ list = Tail(sop.before)

(* ---------------- select and combine ---------------- *)

\* D is base.select(key) with one index as its key, and the call just made is D.unwrap()
UnwrappedIndex ==
  /\ outcome.name = "unwrap"
  /\ derivation.kind = "select"
  /\ Len(derivation.keys) = 1
  /\ derivation.keys[1].t = "index"

\* C15: unwrapping base.select(k) for an index k on a node that holds an array
\* returns, without an error, the element at k of the array as it is now, counting
\* back from the end for a negative k, and undefined if there is no such element.
SelectFollowsTheArray ==
  (UnwrappedIndex /\ nodeValue[derivation.base].t = "arr") =>
    LET items == nodeValue[derivation.base].items
        k == derivation.keys[1].v
        at == IF k < 0 THEN k + Len(items) ELSE k
    IN /\ outcome.ok
       /\ outcome.value = IF at >= 0 /\ at < Len(items) THEN items[at + 1]
                          ELSE PlainPrim(Undefined)

\* select(-1) was unwrapped, the array grew, and the next unwrap gave the new last
\* element
SelectFollowsTheArrayWitness ==
  /\ UnwrappedIndex
  /\ derivation.base = "A"
  /\ derivation.keys[1].v = 0 - 1
  /\ dEvals = 2
  /\ Len(nodeValue["A"].items) = 2
  /\ nodeValue["A"].items[1] # nodeValue["A"].items[2]
  /\ outcome.value = nodeValue["A"].items[2]

\* the chain of keys, followed from x, comes to a number, null or undefined with a
\* key still to select
RECURSIVE ReachesPrimitive(_, _, _)
ReachesPrimitive(x, keys, i) ==
  IF i > Len(keys) THEN FALSE
  ELSE IF x.t = "prim" THEN TRUE
  ELSE IF x.t = "arr" THEN ReachesPrimitive(ElementAt(x, keys[i]), keys, i + 1)
  ELSE ReachesPrimitive(MemberAt(x, keys[i]), keys, i + 1)

\* C16: a selection whose chain of keys comes to a value that is neither an object
\* nor an array raises the 'invalid selection' error when it is evaluated.
InvalidSelectionThrows ==
  (/\ outcome.name = "unwrap"
   /\ derivation.kind = "select"
   /\ ReachesPrimitive(nodeValue[derivation.base], derivation.keys, 1))
  => ~outcome.ok

\* Lemma: the error is raised where the chain comes to null or undefined.
RECURSIVE ReachesNullish(_, _, _)
ReachesNullish(x, keys, i) ==
  IF i > Len(keys) THEN FALSE
  ELSE IF x.t = "prim" THEN x.v \in {Null, Undefined} \/ i < Len(keys)
  ELSE IF x.t = "arr" THEN ReachesNullish(ElementAt(x, keys[i]), keys, i + 1)
  ELSE ReachesNullish(MemberAt(x, keys[i]), keys, i + 1)

NullishSelectionThrows ==
  (outcome.name = "unwrap" /\ derivation.kind = "select")
  => (outcome.ok <=> ~ReachesNullish(nodeValue[derivation.base], derivation.keys, 1))

\* the number that an element of the array given to combine() stands for now
Current(v) == IF v.t = "node" THEN nodeValue[v.v].v ELSE v.v

\* C17: combine(values, fn) without a node among values returns fn(values) at once
\* and makes no derivative; with a node among them it returns a derivative, every
\* unwrap of which returns fn of the current values, and which is invalid after one
\* of the nodes changed.
CombineIsEagerOrCurrent ==
  [][/\ outcome'.name = "combined"
        => /\ \A i \in 1 .. 2 : outcome'.values[i].t = "plain"
           /\ outcome'.value = PlainPrim(Plus(outcome'.values[1].v, outcome'.values[2].v))
           /\ derivation'.kind = "none"
     /\ outcome'.name = "combine"
        => /\ \E i \in 1 .. 2 : derivation'.values[i].t = "node"
           /\ derivation'.kind = "combine"
     /\ (outcome'.name = "unwrap" /\ derivation.kind = "combine")
        => /\ outcome'.ok
           /\ outcome'.value = PlainPrim(Plus(Current(derivation.values[1]), Current(derivation.values[2])))
     /\ (/\ derivation.kind = "combine"
         /\ dValid
         /\ \E i \in 1 .. 2 : /\ derivation.values[i].t = "node"
                              /\ nodeValue'[derivation.values[i].v] # nodeValue[derivation.values[i].v])
        => ~dValid']_vars

\* combine([1, X]) was unwrapped, X was set to another number, and the next unwrap
\* gave the new sum
CombineIsEagerOrCurrentWitness ==
  /\ outcome.name = "unwrap"
  /\ derivation.kind = "combine"
  /\ derivation.values = <<PlainValue(1), NodeValue("X")>>
  /\ dEvals = 2
  /\ nodeValue["X"] = PlainPrim(1)
  /\ outcome.value = PlainPrim(Plus(1, 1))

(* ---------------- subscriptions of a derivative ---------------- *)

\* the nodes that the derivation of d reads through its tracker, given the values
\* of the leaves
ReadBy(vals, d) ==
  IF Derivation(d).kind = "cond" THEN {Derivation(d).reads[1], BranchRead(vals, d)}
  ELSE Range(Derivation(d).reads)

\* C18: when an operation has evaluated a derivative and left it valid, the
\* publishers the derivative holds as subscriptions are exactly the nodes its
\* derivation read, it is a subscriber of each of them, and of no other node.
SubscriptionsAreTheNodesRead ==
  [][\A d \in Derivs :
       (Has(evals', d) /\ valid'[d])
       => /\ Range(subscriptions'[d]) = ReadBy(value', d)
          /\ \A n \in Publishers : Has(subscribers'[n], d) <=> n \in ReadBy(value', d)]_vars

\* d1 was evaluated again after its condition changed: it dropped the branch it
\* read before and subscribes to the other one
SubscriptionsAreTheNodesReadWitness ==
  /\ Has(evals, "d1")
  /\ valid["d1"]
  /\ BranchOther(value, "d1") \in dropped["d1"]
  /\ ~Has(subscribers[BranchOther(value, "d1")], "d1")
  /\ Has(subscribers[BranchRead(value, "d1")], "d1")

\* Lemma: the same holds for as long as the derivative stays valid.
ValidDerivativeSubscribesToItsReads ==
  \A d \in Derivs :
    valid[d] => /\ Range(subscriptions[d]) = ReadBy(value, d)
                /\ \A n \in Publishers : Has(subscribers[n], d) <=> n \in ReadBy(value, d)

(* ---------------- Debounce ---------------- *)

\* C19: the timer that can still elapse is the one of the last run(); when it
\* elapses, or when the reaction to a flush() runs, a pending Debounce calls its
\* action; each call of the action has the parameters of the last run() before it,
\* is the only call for its promise, resolves with its result the one promise that
\* every run() of its cycle returned, and no later run() returns that promise.
DebounceCoalesces ==
  [][/\ \A i \in 1 .. Len(delays') : delays'[i].timer = "armed" => i = delay'
     /\ (bop' \in {"timeout", "reaction"} /\ pending)
        => /\ ~pending'
           /\ events' = Append(events, [kind |-> "action", p |-> parameters,
                                        promise |-> deferred])
     /\ \A j \in 1 .. Len(events') :
          events'[j].kind = "action"
          => /\ j > 1
             /\ events'[j - 1].kind = "run"
             /\ events'[j - 1].p = events'[j].p
             /\ promises'[events'[j].promise] =
                  [state |-> "resolved", v |-> Double(events'[j].p)]
             /\ \A i \in 1 .. Len(events') :
                  /\ (i # j /\ events'[i].kind = "action")
                     => events'[i].promise # events'[j].promise
                  /\ (i < j /\ \A m \in i .. j - 1 : events'[m].kind = "run")
                     => events'[i].promise = events'[j].promise
                  /\ (i > j /\ events'[i].kind = "run")
                     => events'[i].promise # events'[j].promise]_vars

\* run(1) and run(2) were coalesced by a flush() into one call with 2, and a later
\* run() was called on its own when its delay elapsed
DebounceCoalescesWitness ==
  /\ Len(events) = 5
  /\ events[1] = [kind |-> "run", p |-> 1, promise |-> 1]
  /\ events[2] = [kind |-> "run", p |-> 2, promise |-> 1]
  /\ events[3] = [kind |-> "action", p |-> 2, promise |-> 1]
  /\ events[4].kind = "run"
  /\ events[4].promise = 2
  /\ events[5].kind = "action"
  /\ bop = "timeout"
  /\ promises[1].v = Double(2)
  /\ promises[2].state = "resolved"

(* ---------------- Interval ---------------- *)

\* the action of an Interval with withLimit(n) is never called more than n times,
\* has been called n times when the limit has stopped the interval, and is not
\* called again after the call in which it cancelled the interval
LimitIsKept ==
  /\ program.limit > 0
     => /\ invocations <= program.limit
        /\ (intervalHandle = "cleared" /\ program.cancelAt = 0) => invocations = program.limit
  /\ program.cancelAt > 0 => invocations <= program.cancelAt

\* C20: with withLimit(n) the action is called n times and never again, whether it
\* is synchronous or returns a promise that settles after further periods, and a
\* cancel() from inside the action stops all further calls.
IntervalCallsLimitTimes == intervalHandle # "none" => LimitIsKept

\* Lemma: the same for an action that returns no promise.
SyncIntervalCallsLimitTimes ==
  (intervalHandle # "none" /\ program.mode = "sync") => LimitIsKept

SyncIntervalCallsLimitTimesWitness ==
  /\ program = [limit |-> 3, mode |-> "sync", cancelAt |-> 0]
  /\ invocations = 3
  /\ intervalHandle = "cleared"

\* Lemma: a cancel() from inside the action stops the calls, whatever the action.
CancelInsideStopsCalls ==
  program.cancelAt > 0 => invocations <= program.cancelAt

(* ---------------- notifications of an object patch ---------------- *)

\* how many times node n called updateSubscribers() in the last operation
Notifications(log, n) == Cardinality({i \in 1 .. Len(log) : log[i] = n})

\* C21: one patch(source) of a ReactiveObject makes the object call
\* updateSubscribers() exactly once if some key of source held no reactive child
\* or some key of the object is not in source, and not at all otherwise; the call
\* comes after every notification of a child.
ObjectPatchNotifiesOnce ==
  [][\A n \in 1 .. Len(nodes) :
       (pop'.name = "patch" /\ n = Patched' /\ nodes[n].class = "ReactiveObject") =>
       LET assigned == \E k \in SourceKeys' : Component(CacheHeap, n, k).t # "node"
           removed == \E k \in (1 .. Len(Keys)) \ SourceKeys' :
                        Component(CacheHeap, n, k).t # "absent"
       IN /\ Notifications(notified', n) = (IF assigned \/ removed THEN 1 ELSE 0)
          /\ (assigned \/ removed) => notified'[Len(notified')] = n]_vars

\* a patch that assigned two slots and notified once
ObjectPatchNotifiesOnceWitness ==
  /\ pop.name = "patch"
  /\ nodes[Patched].class = "ReactiveObject"
  /\ SourceKeys = 1 .. Len(Keys)
  /\ \A k \in SourceKeys : Component(CacheHeap, Patched, k).t # "node"
  /\ notified = <<Patched>>

\* a patch of an object whose keys all hold reactive children: the children
\* notify, the object does not
ObjectPatchOfChildrenIsSilent ==
  /\ pop.name = "patch"
  /\ nodes[Patched].class = "ReactiveObject"
  /\ SourceKeys # {}
  /\ notified # <<>>
  /\ ~Has(notified, Patched)

(* ---------------- removal of a property ---------------- *)

\* the key that the last remove() was given
Removed == pop.key

\* C22: with the default REMOVAL_STRATEGY a key of the object that patch() does
\* not find in source, or that remove() is given, is a key with the value
\* undefined afterwards and the object has notified; a key that the object does
\* not have stays absent, and a remove() of it notifies nobody.
RemovedKeyIsUndefined ==
  [][\A n \in 1 .. Len(nodes), k \in 1 .. Len(Keys) :
       /\ n = Patched'
       /\ nodes[n].class = "ReactiveObject"
       /\ \/ pop'.name = "patch" /\ k \notin SourceKeys'
          \/ pop'.name = "remove" /\ k = Removed'
       => IF Component(CacheHeap, n, k).t # "absent"
          THEN /\ Component(CacheHeap, n, k)' = Prim(Undefined)
               /\ Has(notified', n)
          ELSE /\ Component(CacheHeap, n, k)' = Absent
               /\ pop'.name = "remove" => notified' = <<>>]_vars

\* remove() of a key that held a value, and the object has notified
RemovedKeyIsUndefinedWitness ==
  /\ pop.name = "remove"
  /\ Component(CacheHeap, Patched, Removed) = Prim(Undefined)
  /\ notified = <<Patched>>

\* remove() of a key that the object does not have
RemoveOfAbsentKeyIsSilent ==
  /\ pop.name = "remove"
  /\ Component(CacheHeap, Patched, Removed) = Absent
  /\ notified = <<>>

(* ---------------- remove count of splice ---------------- *)

\* the remove count that the last splice() or removeAt() computed from the count
\* it was given
RemoveCount ==
  LET n == Len(sop.before)
  IN normalizeRangeLength(n, sop.count, normalizeRangeStart(n, sop.index))

\* C23: the remove count that splice uses on an array of length n, from the
\* normalized start index s and the requested count, is in [0, n - s].
RemoveCountIsClamped ==
  sop.name \in {"splice", "removeAt"} =>
    LET n == Len(sop.before)
    IN /\ RemoveCount >= 0
       /\ RemoveCount <= n - normalizeRangeStart(n, sop.index)

\* what the code gives: the requested count as it is, however short the array
RemoveCountIsTheRequestedCount ==
  sop.name \in {"splice", "removeAt"} => RemoveCount = sop.count

(* ---------------- splice of an array of the heap ---------------- *)

Mutators == {"fill", "swap", "swapAll", "remove", "removeAll", "toggle", "pop", "addFirst"}

\* C25: a mutating method of a reactive array that changes the array makes the
\* array node call updateSubscribers() exactly once before it returns.
ChangingMethodNotifiesOnce ==
  (arrayOp.name \in Mutators /\ arrayValue # arrayOp.before) => arrayOp.updates = 1

\* what the code gives: one call for every method but swapAll, which never
\* commits, and removeAll, which commits once for each match
ChangingMethodNotifiesOnceButTheAllMethods ==
  (arrayOp.name \in Mutators \ {"swapAll", "removeAll"} /\ arrayValue # arrayOp.before)
  => arrayOp.updates = 1

\* swapAll() has changed the array and notified nobody
SwapAllIsSilent ==
  /\ arrayOp.name = "swapAll"
  /\ arrayValue # arrayOp.before
  /\ arrayOp.updates = 0

\* removeAll() has notified twice
RemoveAllNotifiesTwice ==
  /\ arrayOp.name = "removeAll"
  /\ arrayOp.updates = 2

\* C28: fill(value, start, end) on an array of length n changes only the indices
\* from the normalized start up to the normalized end, which is in [start, n],
\* and leaves the length at n, for every start and end.
FillKeepsTheLength ==
  arrayOp.name = "fill" =>
    LET n == Len(arrayOp.before)
        start == normalizeRangeStart(n, Default(arrayOp.args[2], 0))
        end == normalizeRangeEnd(n, Default(arrayOp.args[3], n), start)
    IN /\ end \in start .. n
       /\ Len(arrayValue) = n
       /\ \A i \in 1 .. n :
            arrayValue[i] = IF start < i /\ i <= end THEN arrayOp.args[1] ELSE arrayOp.before[i]

\* what the code gives: an end beyond the length is kept, and fill extends the array
FillReachesTheEnd ==
  arrayOp.name = "fill" =>
    LET n == Len(arrayOp.before)
        start == normalizeRangeStart(n, Default(arrayOp.args[2], 0))
        end == Max(mirrorIndex(Default(arrayOp.args[3], n), n), start)
    IN /\ Len(arrayValue) = Max(n, end)
       /\ \A i \in 1 .. Len(arrayValue) :
            arrayValue[i] = IF start < i /\ i <= end THEN arrayOp.args[1] ELSE arrayOp.before[i]

\* C29: removeAll(value) removes every element that is value and no other
\* element, whatever the array holds, and returns the removed values in order.
RemoveAllRemovesEveryMatch ==
  arrayOp.name = "removeAll" =>
    /\ arrayValue = SelectSeq(arrayOp.before, LAMBDA e : e # arrayOp.args[1])
    /\ arrayOp.result = SelectSeq(arrayOp.before, LAMBDA e : e = arrayOp.args[1])

\* what the code gives when value occurs at most once
RemoveAllRemovesTheOnlyMatch ==
  (arrayOp.name = "removeAll"
   /\ Len(SelectSeq(arrayOp.before, LAMBDA e : e = arrayOp.args[1])) <= 1) =>
    /\ arrayValue = SelectSeq(arrayOp.before, LAMBDA e : e # arrayOp.args[1])
    /\ arrayOp.result = SelectSeq(arrayOp.before, LAMBDA e : e = arrayOp.args[1])

\* removeAll(value) has removed an element that is not value
RemoveAllRemovesAnother ==
  /\ arrayOp.name = "removeAll"
  /\ Len(SelectSeq(arrayValue, LAMBDA e : e # arrayOp.args[1]))
       < Len(SelectSeq(arrayOp.before, LAMBDA e : e # arrayOp.args[1]))

\* C30: setAt(index, value) on an array of length n sets the element at index
\* for 0 <= index < n and at n + index for a negative index, and no other.
SetAtUpdatesTheIndex ==
  (arrayOp.name = "setAt" /\ arrayOp.args[1] \in (0 - Len(arrayOp.before)) .. (Len(arrayOp.before) - 1))
  => arrayValue = [arrayOp.before EXCEPT ![mirrorIndex(arrayOp.args[1], Len(arrayOp.before)) + 1] =
                     arrayOp.args[2]]

\* what the code gives: mirrorIndex is given the length as the index, and the
\* value is appended
SetAtAppends ==
  arrayOp.name = "setAt" => arrayValue = Append(arrayOp.before, arrayOp.args[2])

(* ---------------- push on notify, pull on demand ---------------- *)

\* how many times the sequence log holds an entry whose field f is x
Count(log, f, x) == Cardinality({i \in 1 .. Len(log) : log[i][f] = x})

\* C26: during a set(), every update() of a derivative is followed by one pass
\* over the derivative's subscribers and leaves the derivative invalid unless it
\* is read afterwards; the derivation function runs only for a derivative that a
\* consumer reads, directly or through further derivatives.
UpdateInvalidatesWithoutEvaluating ==
  [][op'.name = "set" =>
       \A d \in Derivs :
         /\ Count(passes', "pub", d) = Count(updates', "sub", d)
         /\ (Count(updates', "sub", d) > 0 /\ ~Has(evals', d)) => ~valid'[d]
         /\ Has(evals', d) => \E k \in Consumers : Paths(subscribers, d, k) > 0]_vars

\* d1 has been evaluated once, nobody consumes anything, and a set() of a leaf it
\* reads has updated d1 without evaluating it
UpdateInvalidatesWithoutEvaluatingWitness ==
  /\ op.name = "set"
  /\ Count(updates, "sub", "d1") = 1
  /\ evals = <<>>
  /\ memo["d1"] # Undefined
  /\ ~valid["d1"]
  /\ \A k \in Consumers : base[k] = None

(* ---------------- a derivation that returns a node ---------------- *)

\* C27: the value of a derivative whose derivation function returns a node is
\* the value of that node, and the derivative is subscribed to the node.
DerivedNodeIsUnwrapped ==
  (derivation.kind = "node" /\ outcome.name = "unwrap") =>
    /\ outcome.value = nodeValue[derivation.base]
    /\ Has(dSubscriptions, derivation.base)
    /\ Has(nodeSubscribers[derivation.base], "D")

\* what the code gives: the value is the node itself, and the derivative, which
\* subscribes to nothing, stays valid when the node is set
DerivedNodeIsReturned ==
  (derivation.kind = "node" /\ dEvals > 0) =>
    /\ dValid
    /\ dValue = ReactiveView(derivation.base)
    /\ dSubscriptions = <<>>

\* the node has been set after the derivative that returns it was unwrapped
DerivedNodeIsSet ==
  /\ derivation.kind = "node"
  /\ dValid
  /\ outcome.name = "set"
  /\ nodeValue[derivation.base] # PlainPrim(0)

(* ------------- what a consumer of a derivative receives ------------- *)

\* the derivation function of node n applied to the leaf values vals
Applied(vals, n) ==
  LET d1 == IF Truthy(vals["c"]) THEN vals["a"] ELSE vals["b"]
  IN IF n \in Leaves THEN vals[n]
     ELSE IF n = "d1" THEN d1
     ELSE Plus(Plus(0, vals["c"]), d1)

\* the calls of the last operation that a consumer of a derivative received
DerivativeCalls == {i \in 1 .. Len(calls) : base[calls[i].consumer] \in Derivs}

\* C31: every value passed to a consumer callback of a derivative is the
\* derivation function applied to the leaf values current at the moment of the
\* call; no callback receives a value computed from a derivative that is still
\* to be invalidated.
CallbackValueIsCurrent ==
  \A i \in DerivativeCalls : calls[i].v = Applied(value, base[calls[i].consumer])

\* a set() of c has called the consumer of d2 with the sum of the new c and
\* the memo d1 held before the set
CallbackValueIsStale ==
  /\ op.name = "set"
  /\ \E i \in DerivativeCalls : calls[i].v # Applied(value, base[calls[i].consumer])

(* ---------------- the memo of a valid derivative ---------------- *)

\* C32: between operations, every derivative that is valid holds the value its
\* derivation function returns on the current values of the nodes it reads,
\* after any sequence of set and of the container mutators.
ValidMemoIsCurrent ==
  dValid => /\ Derived(SelectHeap).result.ok
            /\ dValue = Derived(SelectHeap).result.value

\* what the code gives: the memo is current unless the last mutator of the array
\* was swapAll()
ValidMemoIsCurrentButSwapAll ==
  [][(dValid' /\ outcome'.name # "swapAll" /\ ValidMemoIsCurrent)
     => ValidMemoIsCurrent']_vars

\* swapAll() has replaced the element that the valid derivative A.select(0) holds
ValidMemoIsStale ==
  /\ outcome.name = "swapAll"
  /\ derivation.kind = "select"
  /\ dValid
  /\ Derived(SelectHeap).result.ok
  /\ dValue # Derived(SelectHeap).result.value

(* ---------------- the two ends of a subscription ---------------- *)

\* the publishers whose subscriber set holds D and that D does not hold as a
\* subscription
Leaked == {n \in SelectNodes : Has(nodeSubscribers[n], "D") /\ ~Has(dSubscriptions, n)}

\* C33: between operations, for every publisher p and derivative d, d is in
\* p's subscriber set if and only if p is in d's upstream subscription set.
EdgeSymmetry ==
  \A n \in SelectNodes : Has(nodeSubscribers[n], "D") <=> Has(dSubscriptions, n)

\* what the code gives: every subscription of D is held by its publisher, and
\* the two ends agree until a derivation throws
SubscriptionIsHeld ==
  \A n \in SelectNodes : Has(dSubscriptions, n) => Has(nodeSubscribers[n], "D")

EdgeSymmetryUntilThrow ==
  [][(EdgeSymmetry /\ outcome'.ok) => EdgeSymmetry']_vars

\* the same for derivations that do not throw: the derivatives d1 and d2, under
\* set(), consume(), cancel(), unwrap() and free()
EdgeSymmetryOfTotalDerivations ==
  \A p \in Publishers, d \in Derivs :
    Has(subscribers[p], d) <=> Has(subscriptions[d], p)

\* D = V.select('a', 'a') has read V and the node X that V held, V has been set
\* to null, and the unwrap() that threw has left D among the subscribers of X
EdgeSymmetryIsBroken ==
  /\ outcome.name = "unwrap"
  /\ ~outcome.ok
  /\ Leaked = {"X"}
  /\ dSubscriptions = <<"V">>

(* ---------------- a derivation that throws ---------------- *)

\* C34: if the derivation function throws during unwrap(), the error reaches
\* the caller, the derivative stays invalid, and no subscription is leaked:
\* after a later free() the derivative is in no subscriber set, and after a
\* later successful evaluation it is in the subscriber set of no publisher that
\* it does not read.
ThrowLeaksNoSubscription ==
  /\ (outcome.name = "unwrap" /\ ~outcome.ok) => ~dValid
  /\ outcome.name = "free" => \A n \in SelectNodes : ~Has(nodeSubscribers[n], "D")
  /\ (outcome.name = "unwrap" /\ outcome.ok) => Leaked = {}

\* what the code gives: the derivative stays invalid
ThrowLeavesInvalid ==
  (outcome.name = "unwrap" /\ ~outcome.ok) => ~dValid /\ dSubscriptions # <<>>

\* D has been freed and is still among the subscribers of X
FreedIsSubscribed ==
  /\ outcome.name = "free"
  /\ dSubscriptions = <<>>
  /\ Has(nodeSubscribers["X"], "D")

(* ---------------- a derivative without subscribers ---------------- *)

\* the derivatives that have no subscribers and yet hold a subscription or are
\* held as a subscriber
Lingering ==
  {d \in Derivs : /\ ~HasSubscribers(Heap, d)
                  /\ \/ subscriptions[d] # <<>>
                     \/ \E p \in Publishers : Has(subscribers[p], d)}

\* C35: between operations, a derivative that has no subscribers holds no
\* upstream subscriptions and is in no publisher's subscriber set, also after
\* it was read with unwrap() while unobserved and after a cancelled consumer was
\* notified from a snapshot of the subscribers.
UnobservedHoldsNoSubscription == Lingering = {}

\* what the code gives: free() leaves the derivative without subscriptions
FreedHoldsNoSubscription ==
  \A d \in Derivs :
    (op.name = "free" /\ op.target = d) =>
      /\ subscriptions[d] = <<>>
      /\ \A p \in Publishers : ~Has(subscribers[p], d)

\* d1, which nobody subscribes to, has been read with unwrap() and is a
\* subscriber of c and of b
UnwrappedUnobservedIsSubscribed ==
  /\ op.name = "unwrap"
  /\ op.target = "d1"
  /\ Lingering = {"d1"}
  /\ valid["d1"]
  /\ Has(subscribers["c"], "d1")

\* what the code gives: only an unwrap() by a reader that is no subscriber
\* leaves a derivative without subscribers subscribed
OnlyUnwrapLingers ==
  [][(Lingering = {} /\ op'.name # "unwrap") => Lingering' = {}]_vars

(* ---------------- a call that leaves the array as it is ---------------- *)

\* the methods of C36 that the model calls
Removers == {"pop", "shift", "removeAt"}

\* C36: pop() or shift() on an empty array, removeAt() with a start index at or
\* beyond the end, and removeAt() with a count of 0 leave the array as it is and
\* do not call updateSubscribers(), also on an array that is not dirty.
UnchangedArrayIsSilent ==
  [][(arrayOp'.name \in Removers /\ arrayValue' = arrayValue /\ ~arrayDirty)
     => arrayOp'.updates = 0]_vars

\* what the code gives: a count of 0 is silent on an array that is not dirty
RemoveNothingIsSilent ==
  [][(arrayOp'.name = "removeAt" /\ arrayOp'.args[2] = 0 /\ ~arrayDirty)
     => (arrayOp'.updates = 0 /\ arrayValue' = arrayValue)]_vars

\* what the code gives otherwise: a count above 0 marks the array dirty whether
\* or not an element is there to remove, and the commit notifies
RemoveBeyondTheEndNotifies ==
  [][(arrayOp'.name = "removeAt" /\ arrayOp'.args[2] > 0) => arrayOp'.updates = 1]_vars

\* pop() on the empty array Reactive.of([]) has notified
PopOfEmptyNotifies ==
  /\ arrayOp.name = "pop"
  /\ arrayOp.before = <<>>
  /\ arrayOps = 1
  /\ arrayOp.updates = 1

(* ---------------- the dirty flag between calls ---------------- *)

\* C37: the dirty flag of a container is false whenever no operation on the
\* container is in progress: every public mutator that sets it also commits
\* before it returns, so that no change is first announced by the commit of a
\* later operation.
DirtyIsFalseBetweenCalls == ~arrayDirty

\* what the code gives: every method of the model but swapAll() leaves an array
\* that was not dirty not dirty
OnlySwapAllLeavesDirty ==
  [][(~arrayDirty /\ arrayOp'.name # "swapAll") => ~arrayDirty']_vars

\* swapAll() has replaced an element and left the array dirty
SwapAllLeavesDirty ==
  /\ arrayOp.name = "swapAll"
  /\ arrayOp.result # <<>>
  /\ arrayOp.updates = 0
  /\ arrayDirty

\* a removeAt() with a count of 0, which changes nothing, has announced the
\* change that the swapAll() before it made
LaterCallAnnounces ==
  /\ arrayOp.name = "removeAt"
  /\ arrayOp.args[2] = 0
  /\ arrayValue = arrayOp.before
  /\ arrayOp.updates = 1
  /\ ~arrayDirty

(* ---------------- the array passed to splice() ---------------- *)

\* C38: splice(index, removeCount, insertValues) does not modify the array
\* insertValues passed by the caller: its length and elements are the same after
\* the call as before.
SpliceKeepsInsertValues ==
  arrayOp.name = "splice" => arrayOp.passed = arrayOp.args[3]

\* what the code gives: the array keeps its elements when none replaces an
\* element of the reactive array, and loses leading elements otherwise
SpliceKeepsTheTail ==
  arrayOp.name = "splice" =>
    /\ \E k \in 0 .. Len(arrayOp.args[3]) :
         arrayOp.passed = SubSeq(arrayOp.args[3], k + 1, Len(arrayOp.args[3]))
    /\ arrayOp.args[2] = 0 => arrayOp.passed = arrayOp.args[3]

\* Reactive.of([1]).splice(0, 1, [2]) has left the array [2] of the caller empty
SpliceEmptiesInsertValues ==
  /\ arrayOp.name = "splice"
  /\ arrayOp.before = <<1>>
  /\ arrayOp.args = <<0, 1, <<2>>>>
  /\ arrayValue = <<2>>
  /\ arrayOp.passed = <<>>

(* ---------------- remove() twice ---------------- *)

\* the last two operations were remove() of the same key on the same object
RemovedAgain ==
  /\ pop.name = "remove"
  /\ pop'.name = "remove"
  /\ pop'.node = pop.node
  /\ pop'.key = pop.key

\* C39: with the default removal strategy a second remove(key) in a row on a
\* reactive object finds nothing to remove, changes nothing and notifies nobody.
SecondRemoveIsSilent ==
  [][RemovedAgain => notified' = <<>>]_vars

\* what the code gives: the key that the first remove() set to undefined is
\* still a key of the object, and the second remove() notifies as the first did
SecondRemoveNotifiesAgain ==
  [][RemovedAgain => /\ notified' = notified
                     /\ arrays' = arrays]_vars

(* ---------------- areEqual ---------------- *)

\* the value holds neither an array nor an object
Flat(x) == \A i \in 1 .. Len(x.items) : x.items[i].t \in {"prim", "absent"}

\* C40: areEqual is symmetric, and two objects whose sets of keys differ are
\* never reported equal, for all plain values built from primitives (undefined
\* among them), arrays and objects.
AreEqualIsSymmetric ==
  equality.compared =>
    /\ equality.result = equality.swapped
    /\ (/\ equality.a.t = "obj"
        /\ equality.b.t = "obj"
        /\ ObjectKeys(equality.a) # ObjectKeys(equality.b)) => ~equality.result

\* what the code gives: symmetry for two flat arrays, and for two flat objects
\* with the same keys
AreEqualIsSymmetricOnSameKeys ==
  (/\ equality.compared
   /\ Flat(equality.a)
   /\ Flat(equality.b)
   /\ \/ equality.a.t = "arr" /\ equality.b.t = "arr"
      \/ /\ equality.a.t = "obj"
         /\ equality.b.t = "obj"
         /\ ObjectKeys(equality.a) = ObjectKeys(equality.b))
  => equality.result = equality.swapped

\* areEqual({a: undefined}, {b: 1}) is true and areEqual({b: 1}, {a: undefined})
\* is false
UndefinedStandsForAbsent ==
  /\ equality.compared
  /\ equality.a = PlainObj(<<PlainPrim(Undefined), PlainAbsent>>)
  /\ equality.b = PlainObj(<<PlainAbsent, PlainPrim(1)>>)
  /\ equality.result
  /\ ~equality.swapped

\* areEqual({}, []) is true and areEqual([], {}) is false
EmptyObjectEqualsEmptyArray ==
  /\ equality.compared
  /\ equality.a = PlainObj(<<PlainAbsent, PlainAbsent>>)
  /\ equality.b = PlainArr(<<>>)
  /\ equality.result
  /\ ~equality.swapped

====
